---- MODULE Spec2Model ----
(***************************************************************************)
(* SafeNest AI: the risk scorer (backend/inference/risk_scorer.py) and the *)
(* temporal tracker (backend/inference/temporal_tracker.py).               *)
(*                                                                         *)
(* Arithmetic.  The code computes with Python floats.  The model computes  *)
(* the same expressions exactly, as integer numerators over one common     *)
(* denominator per call:                                                   *)
(*   severity, area_multiplier, climate multiplier : tenths                *)
(*   confidence                                    : twentieths            *)
(*   confidence_factor = c*0.8 + 0.2               : two-hundredths        *)
(*   area_factor                                   : over 10*|image_area|  *)
(* so a penalty is a numerator over Den = 200000 * |image_area|.           *)
(* round() is Python 3's round: to nearest, ties to the even integer.      *)
(* An exception is an outcome of the call: "ZeroDivisionError", "KeyError",*)
(* "TypeError", "IndexError"; a call that returns has outcome "return".    *)
(***************************************************************************)
EXTENDS Integers, Sequences, FiniteSets, TLC

\* ---------------------------------------------------------------- bounds
MaxDets == 2
MaxFrames == 3
\* detections of one video frame, frame numbers, tracks of one tracker
MaxFrameDets == 2
MaxFrameId == 6
MaxTracks == 4
\* largest coordinate of the boxes handed to calculate_iou
MaxCoord == 3
\* samples of one track's areas, tracks summarised by one get_summary call
MaxAreas == 6
MaxSummaryTracks == 3
\* contours one sub-detector finds in one image
MaxContours == 2
\* frames of one video file
MaxVideoFrames == 13
\* largest capacity per scan an EvidenceStore is built with, the default of
\* 50 apart
MaxEvidence == 3
\* deep scans started, and messages received by one camera session
MaxScans == 2
MaxWsMessages == 2

\* ------------------------------------------------------- scalar helpers
Max(a, b) == IF a >= b THEN a ELSE b
Min(a, b) == IF a <= b THEN a ELSE b
Abs(a) == IF a < 0 THEN -a ELSE a

\* floor(n / d) for d > 0 and any integer n
FloorDiv(n, d) == IF n >= 0 THEN n \div d ELSE -((-n + d - 1) \div d)

\* Python 3 round(n / d) for d > 0: nearest integer, ties to even
RoundHalfEven(n, d) ==
  LET q == FloorDiv(n, d)
      r == n - q * d
  IN  IF 2 * r < d THEN q
      ELSE IF 2 * r > d THEN q + 1
      ELSE IF q % 2 = 0 THEN q ELSE q + 1

\* encodes Python None for an optional number, and an absent dictionary key
None == -1
Absent == "<absent>"

\* ------------------------------------------------- risk_scorer.py tables
\* DEFECT_WEIGHTS: severity and area_multiplier in tenths
DefectWeight(s10, a10) == [severity |-> s10, area_multiplier |-> a10]

DEFECT_WEIGHTS ==
  [ crack        |-> DefectWeight(30, 15),
    leak         |-> DefectWeight(40, 20),
    water_damage |-> DefectWeight(40, 20),
    damp         |-> DefectWeight(20, 12),
    dampness     |-> DefectWeight(20, 12),
    mold         |-> DefectWeight(50, 25),
    mould        |-> DefectWeight(50, 25),
    corrosion    |-> DefectWeight(30, 15),
    rust         |-> DefectWeight(30, 15),
    peeling      |-> DefectWeight(15, 10),
    stain        |-> DefectWeight(10, 8),
    electrical   |-> DefectWeight(45, 10),
    spalling     |-> DefectWeight(35, 18),
    deformation  |-> DefectWeight(40, 20),
    default      |-> DefectWeight(20, 10) ]

\* AGE_FACTORS: additive penalty in whole points
AGE_FACTORS ==
  [ pre_1950 |-> 15, pre_1970 |-> 10, r1970_1990 |-> 5, r1990_2010 |-> 2,
    post_2010 |-> 0 ]

\* the dictionary key of AGE_FACTORS an age string selects ('1970_1990' and
\* '1990_2010' are not TLA+ field names)
AgeKey(k) ==
  CASE k = "1970_1990" -> "r1970_1990"
    [] k = "1990_2010" -> "r1990_2010"
    [] OTHER -> k

\* CLIMATE_FACTORS: multiplier in tenths
CLIMATE_FACTORS ==
  [ hot_humid |-> [mold |-> 15, dampness |-> 13, rust |-> 12],
    cold_dry  |-> [crack |-> 13, spalling |-> 14],
    coastal   |-> [rust |-> 15, corrosion |-> 15, salt_damage |-> 14],
    temperate |-> <<>> ]

\* dict.get(key, default)
DictGet(d, k, default) == IF k \in DOMAIN d THEN d[k] ELSE default

\* a normalisation that also maps the detector's names to table keys
Lower_ToTableKey(s) ==
  CASE s = "Mold" -> "mold"
    [] s = "Water Damage" -> "water_damage"
    [] s = "Rust/Corrosion" -> "rust"
    [] OTHER -> s

\* str.lower() on the class names the model uses
Lower(s) ==
  CASE s = "Mold" -> "mold"
    [] s = "Water Damage" -> "water damage"
    [] s = "Rust/Corrosion" -> "rust/corrosion"
    [] OTHER -> s

\* RiskScorer.__init__ defaults
base_score == 100
max_defects_penalty == 70
\* confidence_weight = 0.8, in tenths
confidence_weight10 == 8

\* ------------------------------------------------ RiskScorer.calculate_score
\* |image_area|, or 1 when image_area is 0 (then no returning call divides by it)
IA(image_area) == IF image_area = 0 THEN 1 ELSE Abs(image_area)
Sgn(a) == IF a < 0 THEN -1 ELSE 1

\* the common denominator of every penalty of one call
Den(image_area) == 200000 * IA(image_area)

\* line 153: the climate key of the call
ClimateOf(user_context) ==
  IF user_context.is_none \/ user_context.climate = Absent
  THEN "temperate" ELSE user_context.climate

\* line 154
ClimateAdjustments(user_context) ==
  DictGet(CLIMATE_FACTORS, ClimateOf(user_context), <<>>)

\* line 163
WeightOf_CrackByDefault(defect_class) ==
  DictGet(DEFECT_WEIGHTS, defect_class, DEFECT_WEIGHTS["crack"])

WeightOf(defect_class) ==
  DictGet(DEFECT_WEIGHTS, defect_class, DEFECT_WEIGHTS["default"])

\* line 166, in tenths
ClimateMult(user_context, defect_class) ==
  DictGet(ClimateAdjustments(user_context), defect_class, 10)

BoxArea(bbox) == (bbox[3] - bbox[1]) * (bbox[4] - bbox[2])

\* lines 169-177: the division by image_area raises ZeroDivisionError
DividesByZero(defect, image_area) ==
  /\ defect.affected_area_percent = None
  /\ Len(defect.bbox) = 4
  /\ image_area = 0

\* lines 169-177: area_factor as a numerator over 10 * IA(image_area)
AreaFactor_ZeroForMalformed(defect, image_area) ==
  IF defect.affected_area_percent # None
  THEN defect.affected_area_percent * IA(image_area)
  ELSE IF Len(defect.bbox) = 4
       THEN BoxArea(defect.bbox) * 100 * Sgn(image_area)
       ELSE 0

AreaFactor(defect, image_area) ==
  IF defect.affected_area_percent # None
  THEN defect.affected_area_percent * IA(image_area)
  ELSE IF Len(defect.bbox) = 4
       THEN BoxArea(defect.bbox) * 100 * Sgn(image_area)
       ELSE 10 * IA(image_area)

\* a confidence factor that falls as the confidence rises
ConfidenceFactor_Inverted(confidence) ==
  (20 - confidence) * confidence_weight10 + (10 - confidence_weight10) * 20

\* line 182: confidence * w + (1 - w), in two-hundredths
ConfidenceFactor(confidence) ==
  confidence * confidence_weight10 + (10 - confidence_weight10) * 20

\* a penalty that leaves the climate multiplier out
DefectPenalty_NoClimate(defect, image_area, user_context) ==
  LET defect_class == Lower(defect.class)
      weight == WeightOf(defect_class)
      base_penalty == weight.severity * 3 * 10 * IA(image_area)
      area_penalty == AreaFactor(defect, image_area) * weight.area_multiplier
  IN  (base_penalty + area_penalty) * ConfidenceFactor(defect.confidence) * 10

\* lines 180-184: one defect's penalty as a numerator over Den(image_area)
DefectPenalty(defect, image_area, user_context) ==
  LET defect_class == Lower(defect.class)
      weight == WeightOf(defect_class)
      base_penalty == weight.severity * 3 * 10 * IA(image_area)
      area_penalty == AreaFactor(defect, image_area) * weight.area_multiplier
  IN  (base_penalty + area_penalty) * ConfidenceFactor(defect.confidence)
        * ClimateMult(user_context, defect_class)

\* lines 190-197: one breakdown entry; penalty is round(defect_penalty, 2) in
\* hundredths, confidence in twentieths
BreakdownEntry(defect, image_area, user_context) ==
  LET defect_class == Lower(defect.class)
  IN  [ defect_type |-> defect_class,
        confidence |-> defect.confidence,
        penalty |-> RoundHalfEven(DefectPenalty(defect, image_area, user_context),
                                  Den(image_area) \div 100),
        severity |-> WeightOf(defect_class).severity,
        climate_adjusted |-> ClimateMult(user_context, defect_class) # 10 ]

\* lines 156-185: total_penalty after the loop, numerator over Den(image_area)
RECURSIVE SumPenalties(_, _, _)
SumPenalties(defects, image_area, user_context) ==
  IF defects = <<>> THEN 0
  ELSE DefectPenalty(Head(defects), image_area, user_context)
         + SumPenalties(Tail(defects), image_area, user_context)

\* lines 199-204, whole points
AgePenalty(user_context) ==
  IF ~user_context.is_none /\ user_context.building_age # Absent
  THEN DictGet(AGE_FACTORS, AgeKey(user_context.building_age), 0)
  ELSE 0

\* a defect component that is not capped
DefectPenaltyCapped_Uncapped(raw_total, image_area) == raw_total

\* lines 206-208: the defect component after the cap, over Den(image_area)
DefectPenaltyCapped(raw_total, image_area) ==
  Min(raw_total, max_defects_penalty * Den(image_area))

\* lines 210-212
FinalScore(total_penalty, image_area) ==
  RoundHalfEven(Max(0, base_score * Den(image_area) - total_penalty),
                Den(image_area))

\* risk bands with the thresholds excluded
RiskLevel_StrictBounds(final_score) ==
  IF final_score < 30 THEN "High Risk"
  ELSE IF final_score < 60 THEN "Moderate Risk"
  ELSE "Low Risk"

\* lines 215-237
RiskLevel(final_score) ==
  IF final_score <= 30 THEN "High Risk"
  ELSE IF final_score <= 60 THEN "Moderate Risk"
  ELSE "Low Risk"

NoResult ==
  [ outcome |-> "none", score |-> 0, risk_level |-> "", defect_count |-> 0,
    defects_penalty |-> 0, age_factor |-> 0, breakdown |-> <<>> ]

\* lines 148-268: the path of a non-empty list.  outcome is "return" or the
\* exception raised; defects_penalty is penalty_breakdown['defects'] before
\* its display rounding, a numerator over Den(image_area).
CalcScoreGeneral(defects_, image_area_, user_context_) ==
  IF \E i \in 1..Len(defects_) : DividesByZero(defects_[i], image_area_)
  THEN [ NoResult EXCEPT !.outcome = "ZeroDivisionError" ]
  ELSE
    LET raw == SumPenalties(defects_, image_area_, user_context_)
        age_penalty == AgePenalty(user_context_)
        capped == DefectPenaltyCapped(raw, image_area_)
        total_penalty == capped + age_penalty * Den(image_area_)
        final_score == FinalScore(total_penalty, image_area_)
    IN  [ outcome |-> "return",
          score |-> final_score,
          risk_level |-> RiskLevel(final_score),
          defect_count |-> Len(defects_),
          defects_penalty |-> capped,
          age_factor |-> age_penalty,
          breakdown |-> [ i \in 1..Len(defects_) |->
                            BreakdownEntry(defects_[i], image_area_,
                                           user_context_) ] ]

\* a calculate_score that lost its early return for an empty list
CalcScore_NoFastPath(defects_, image_area_, user_context_) ==
  CalcScoreGeneral(defects_, image_area_, user_context_)

\* lines 115-268; lines 131-146 are the early return for an empty list
CalcScore(defects_, image_area_, user_context_) ==
  IF defects_ = <<>>
  THEN [ NoResult EXCEPT !.outcome = "return", !.score = 100,
                         !.risk_level = "Low Risk" ]
  ELSE CalcScoreGeneral(defects_, image_area_, user_context_)

\* ------------------------------------------------ RiskScorer.aggregate_scores
RECURSIVE SumScores(_)
SumScores(frames) ==
  IF frames = <<>> THEN 0 ELSE Head(frames).score + SumScores(Tail(frames))

\* the best frame instead of the worst
MinScore_Max(frames) ==
  CHOOSE m \in {frames[i].score : i \in 1..Len(frames)} :
    \A i \in 1..Len(frames) : m >= frames[i].score

\* line 287
MinScore(frames) ==
  CHOOSE m \in {frames[i].score : i \in 1..Len(frames)} :
    \A i \in 1..Len(frames) : m <= frames[i].score

\* lines 288 and 305: round(sum / len)
AverageScore(frames) == RoundHalfEven(SumScores(frames), Len(frames))

\* all_defects assigned instead of extended: only the last frame survives
AllDefects_LastOnly(frames) ==
  IF frames = <<>> THEN <<>> ELSE frames[Len(frames)].breakdown

\* lines 291-293: fs.get('breakdown', []) of every frame, in order
RECURSIVE AllDefects(_)
AllDefects(frames) ==
  IF frames = <<>> THEN <<>>
  ELSE Head(frames).breakdown \o AllDefects(Tail(frames))

\* lines 296-301
AggregateRiskLevel(min_score) ==
  IF min_score <= 30 THEN "High Risk"
  ELSE IF min_score <= 60 THEN "Moderate Risk"
  ELSE "Low Risk"

\* line 308
RECURSIVE TotalDefectsFound(_)
TotalDefectsFound(frames) ==
  IF frames = <<>> THEN 0
  ELSE Head(frames).defect_count + TotalDefectsFound(Tail(frames))

NoAggregate ==
  [ outcome |-> "none", score |-> 0, average_score |-> None, risk_level |-> "",
    frames_analyzed |-> None, total_defects_found |-> None,
    defect_breakdown |-> <<>> ]

\* lines 270-310.  A frame record whose defect_count is None has no
\* 'defect_count' key: s['defect_count'] raises KeyError.
AggregateScores(frames) ==
  IF frames = <<>>
  THEN LET r == CalcScore(<<>>, 640 * 480,
                          [is_none |-> TRUE, climate |-> Absent,
                           building_age |-> Absent])
       IN  [ NoAggregate EXCEPT !.outcome = r.outcome, !.score = r.score,
                                !.risk_level = r.risk_level ]
  ELSE IF \E i \in 1..Len(frames) : frames[i].defect_count = None
  THEN [ NoAggregate EXCEPT !.outcome = "KeyError" ]
  ELSE [ outcome |-> "return",
         score |-> MinScore(frames),
         average_score |-> AverageScore(frames),
         risk_level |-> AggregateRiskLevel(MinScore(frames)),
         frames_analyzed |-> Len(frames),
         total_defects_found |-> TotalDefectsFound(frames),
         defect_breakdown |-> AllDefects(frames) ]

\* --------------------------------------------------- temporal_tracker.py
\* TemporalTracker.__init__ defaults: iou_threshold = 0.3 as a fraction
iou_threshold == [num |-> 3, den |-> 10]
max_dropout == 5

\* DefectTrack is a plain @dataclass: eq=True without frozen=True sets
\* __hash__ to None, so a DefectTrack cannot be hashed.  `track in
\* matched_tracks` and `matched_tracks.add(track)` on the set of line 70
\* raise TypeError.
TrackHashable == FALSE

\* lines 33-47: IoU as a fraction num/den with den > 0
calculate_iou_OverFirstBox(box1, box2) ==
  LET x1 == Max(box1[1], box2[1])
      y1 == Max(box1[2], box2[2])
      x2 == Min(box1[3], box2[3])
      y2 == Min(box1[4], box2[4])
      intersection == Max(0, x2 - x1) * Max(0, y2 - y1)
      area1 == (box1[3] - box1[1]) * (box1[4] - box1[2])
  IN  IF area1 > 0 THEN [num |-> intersection, den |-> area1]
      ELSE [num |-> 0, den |-> 1]

calculate_iou(box1, box2) ==
  LET x1 == Max(box1[1], box2[1])
      y1 == Max(box1[2], box2[2])
      x2 == Min(box1[3], box2[3])
      y2 == Min(box1[4], box2[4])
      intersection == Max(0, x2 - x1) * Max(0, y2 - y1)
      area1 == (box1[3] - box1[1]) * (box1[4] - box1[2])
      area2 == (box2[3] - box2[1]) * (box2[4] - box2[2])
      union == area1 + area2 - intersection
  IN  IF union > 0 THEN [num |-> intersection, den |-> union]
      ELSE [num |-> 0, den |-> 1]

IoUGreater(a, b) == a.num * b.den > b.num * a.den
IoUAtLeast(a, b) == a.num * b.den >= b.num * a.den
ZeroIoU == [num |-> 0, den |-> 1]

\* line 64: the indices of the active tracks, in list order
ActiveTracks_Strict(trks, frame_id) ==
  SelectSeq([i \in 1..Len(trks) |-> i],
            LAMBDA i : frame_id - trks[i].last_frame < max_dropout)

ActiveTracks(trks, frame_id) ==
  SelectSeq([i \in 1..Len(trks) |-> i],
            LAMBDA i : frame_id - trks[i].last_frame <= max_dropout)

\* line 67: sorted(..., key=confidence, reverse=True); Python's sort is
\* stable, also with reverse=True.  Insertion into a sorted prefix.
RECURSIVE InsertByConfidence(_, _)
InsertByConfidence(sorted, det) ==
  IF sorted = <<>> THEN <<det>>
  ELSE IF Head(sorted).confidence >= det.confidence
       THEN <<Head(sorted)>> \o InsertByConfidence(Tail(sorted), det)
       ELSE <<det>> \o sorted

RECURSIVE SortByConfidence(_)
SortByConfidence(dets) ==
  IF dets = <<>> THEN <<>>
  ELSE InsertByConfidence(SortByConfidence(SubSeq(dets, 1, Len(dets) - 1)),
                          dets[Len(dets)])

\* lines 80-92: the best unmatched active track of the detection's class;
\* best.track = 0 is best_track = None
RECURSIVE BestMatch(_, _, _, _, _)
BestMatch(trks, candidates, matched, det, best) ==
  IF candidates = <<>> THEN best
  ELSE
    LET t == Head(candidates)
        iou == calculate_iou(det.bbox, trks[t].bboxes[Len(trks[t].bboxes)])
        next == IF t \in matched THEN best
                ELSE IF trks[t].defect_class # det.class THEN best
                ELSE IF trks[t].bboxes # <<>> /\ IoUGreater(iou, best.iou)
                     THEN [iou |-> iou, track |-> t]
                     ELSE best
    IN  BestMatch(trks, Tail(candidates), matched, det, next)

\* lines 96-100: the matched track after the update
BindTrack(track, det, frame_id) ==
  [ track EXCEPT !.last_frame = frame_id,
                 !.frames_seen = @ + 1,
                 !.max_confidence = Max(@, det.confidence),
                 !.bboxes = Append(@, det.bbox),
                 !.areas = Append(@, BoxArea(det.bbox)) ]

\* lines 73-107: the matching loop from detection i on.  st carries the
\* tracks, the matched tracks, the assigned detection indices and the
\* exception raised, if any.
RECURSIVE MatchLoop(_, _, _, _, _)
MatchLoop(st, dets, i, active, frame_id) ==
  IF i > Len(dets) \/ st.raised # "none" THEN st
  ELSE
    LET det == dets[i]
        best == BestMatch(st.tracks, active, st.matched, det,
                          [iou |-> ZeroIoU, track |-> 0])
        step ==
          IF Len(det.bbox) < 4
          THEN [st EXCEPT !.raised = "IndexError"]                \* line 78
          ELSE IF active # <<>> /\ ~TrackHashable
          THEN [st EXCEPT !.raised = "TypeError"]                 \* line 81
          ELSE IF IoUAtLeast(best.iou, iou_threshold) /\ best.track # 0
          THEN [ st EXCEPT
                   !.tracks[best.track] = BindTrack(@, det, frame_id),
                   !.assigned = @ \cup {i},
                   !.matched = @ \cup {best.track} ]
          ELSE st
    IN  MatchLoop(step, dets, i + 1, active, frame_id)

\* lines 114-123
NewTrack(id, det, frame_id) ==
  [ track_id |-> id,
    defect_class |-> det.class,
    first_frame |-> frame_id,
    last_frame |-> frame_id,
    frames_seen |-> 1,
    max_confidence |-> det.confidence,
    areas |-> <<BoxArea(det.bbox)>>,
    bboxes |-> <<det.bbox>> ]

\* a creation loop that forgets line 125, next_id += 1
RECURSIVE CreateLoop_SameId(_, _, _, _, _)
CreateLoop_SameId(trks, nid, dets, assigned, frame_id) ==
  IF dets = <<>> THEN [tracks |-> trks, next_id |-> nid]
  ELSE
    LET i == Len(dets)
        before == CreateLoop_SameId(trks, nid, SubSeq(dets, 1, i - 1),
                                    assigned, frame_id)
    IN  IF i \in assigned THEN before
        ELSE [ tracks |-> Append(before.tracks,
                                 NewTrack(before.next_id, dets[i], frame_id)),
               next_id |-> before.next_id ]

\* lines 110-125: one new track per unassigned detection, in sorted order
RECURSIVE CreateLoop(_, _, _, _, _)
CreateLoop(trks, nid, dets, assigned, frame_id) ==
  IF dets = <<>> THEN [tracks |-> trks, next_id |-> nid]
  ELSE
    LET i == Len(dets)
        before == CreateLoop(trks, nid, SubSeq(dets, 1, i - 1), assigned,
                             frame_id)
    IN  IF i \in assigned THEN before
        ELSE [ tracks |-> Append(before.tracks,
                                 NewTrack(before.next_id, dets[i], frame_id)),
               next_id |-> before.next_id + 1 ]

\* an update that drops the tracks it finds inactive
UpdateTracker_Prunes(trks, nid, detections, frame_id) ==
  LET active == ActiveTracks(trks, frame_id)
      dets == SortByConfidence(detections)
      kept == [k \in 1..Len(active) |-> trks[active[k]]]
      m == MatchLoop([tracks |-> kept, matched |-> {}, assigned |-> {},
                      raised |-> "none"], dets, 1,
                     [k \in 1..Len(active) |-> k], frame_id)
      c == CreateLoop(m.tracks, nid, dets, m.assigned, frame_id)
  IN  IF m.raised # "none"
      THEN [tracks |-> m.tracks, next_id |-> nid, outcome |-> m.raised]
      ELSE [tracks |-> c.tracks, next_id |-> c.next_id, outcome |-> "return"]

\* lines 58-125: update as a function of the tracker state.  An exception
\* leaves the tracks as the matching loop had changed them so far and
\* creates no track.
UpdateTracker(trks, nid, detections, frame_id) ==
  LET active == ActiveTracks(trks, frame_id)
      dets == SortByConfidence(detections)
      m == MatchLoop([tracks |-> trks, matched |-> {}, assigned |-> {},
                      raised |-> "none"], dets, 1, active, frame_id)
      c == CreateLoop(m.tracks, nid, dets, m.assigned, frame_id)
  IN  IF m.raised # "none"
      THEN [tracks |-> m.tracks, next_id |-> nid, outcome |-> m.raised]
      ELSE [tracks |-> c.tracks, next_id |-> c.next_id, outcome |-> "return"]

\* DefectTrack.growth_rate, lines 17-31, as the fraction num/den (den # 0) of
\* the exact value: start_avg and end_avg are the sums of the first and of
\* the last n areas over n, so (end_avg - start_avg) / start_avg is
\* (end_sum - start_sum) / start_sum.  Line 28 returns 0.0 before line 31
\* divides.
RECURSIVE SumSeq(_)
SumSeq(s) == IF s = <<>> THEN 0 ELSE Head(s) + SumSeq(Tail(s))

ZeroRate == [num |-> 0, den |-> 1]

growth_rate_NoZeroGuard(a) ==
  IF Len(a) < 2 THEN ZeroRate
  ELSE LET n == Min(3, Len(a))
           start_sum == SumSeq(SubSeq(a, 1, n))
           end_sum == SumSeq(SubSeq(a, Len(a) - n + 1, Len(a)))
       IN  [num |-> end_sum - start_sum, den |-> start_sum]

growth_rate(a) ==
  IF Len(a) < 2 THEN ZeroRate
  ELSE LET n == Min(3, Len(a))
           start_sum == SumSeq(SubSeq(a, 1, n))
           end_sum == SumSeq(SubSeq(a, Len(a) - n + 1, Len(a)))
       IN  IF start_sum = 0 THEN ZeroRate
           ELSE [num |-> end_sum - start_sum, den |-> start_sum]

\* r > p / q for a rate r = num/den with den # 0 and q > 0
RateGreater(r, p, q) ==
  IF r.den > 0 THEN r.num * q > p * r.den ELSE r.num * q < p * r.den

\* growth judged from the last sample against the first
IsGrowing_LastOverFirst(t) ==
  t.areas[Len(t.areas)] * 20 > 21 * t.areas[1]

\* lines 130, 147: t.growth_rate > 0.05
IsGrowing(t) == RateGreater(growth_rate(t.areas), 1, 20)

\* line 146: round(t.growth_rate, 2), in hundredths
RoundedRate(r) ==
  IF r.den > 0 THEN RoundHalfEven(100 * r.num, r.den)
  ELSE RoundHalfEven(-100 * r.num, -r.den)

\* line 129
Persistent_TwoFrames(trks) == SelectSeq(trks, LAMBDA t : t.frames_seen >= 2)

Persistent(trks) == SelectSeq(trks, LAMBDA t : t.frames_seen >= 3)

\* line 130
Growing(trks) == SelectSeq(Persistent(trks), IsGrowing)

\* lines 141-148
SummaryEntry(t) ==
  [ id |-> t.track_id, class |-> t.defect_class,
    frames_seen |-> t.frames_seen,
    growth_rate |-> RoundedRate(growth_rate(t.areas)),
    is_growing |-> IsGrowing(t) ]

NoSummary ==
  [ done |-> FALSE, total_tracks |-> 0, persistent_defects_count |-> 0,
    growing_defects_count |-> 0, tracks |-> <<>> ]

\* TemporalTracker.get_summary, lines 127-149
get_summary(trks) ==
  [ done |-> TRUE,
    total_tracks |-> Len(trks),
    persistent_defects_count |-> Len(Persistent(trks)),
    growing_defects_count |-> Len(Growing(trks)),
    tracks |-> [ i \in 1..Len(Persistent(trks)) |->
                   SummaryEntry(Persistent(trks)[i]) ] ]

\* ---------------------------------------------------- image_analyzer.py
\* ImageAnalyzer.__init__, lines 36-42: min_area by sensitivity, 'medium' for
\* an unknown one
MinArea(sens) ==
  CASE sens = "low" -> 500
    [] sens = "high" -> 100
    [] OTHER -> 200

\* a contour as the sub-detectors measure it: cv2.contourArea,
\* cv2.boundingRect (x, y, w, h) and cv2.arcLength
Contour(a, x, y, w, h, p) ==
  [area |-> a, x |-> x, y |-> y, w |-> w, h |-> h, perimeter |-> p]

\* round((area / total_pixels) * 100, 2), in hundredths of a percent
AffectedPercent(area, pixels) == RoundHalfEven(area * 10000, pixels)

\* lines 198-206 and 268-275: the record a sub-detector appends; confidence
\* in twentieths
Emitted(c, class, conf, sev, method, pixels) ==
  [ bbox |-> <<c.x, c.y, c.x + c.w, c.y + c.h>>,
    class |-> class,
    confidence |-> conf,
    severity |-> sev,
    affected_area_percent |-> AffectedPercent(c.area, pixels),
    detection_method |-> method ]

\* lines 177-180: aspect_ratio = max(w, h) / (min(w, h) + 1) > 2.0
Elongated_Inclusive(c) == Max(c.w, c.h) >= 2 * (Min(c.w, c.h) + 1)

Elongated(c) == Max(c.w, c.h) > 2 * (Min(c.w, c.h) + 1)

\* lines 168-184: the contour passes the filters of _detect_cracks
IsCrack(c, sens) ==
  /\ ~(c.area < MinArea(sens))
  /\ Elongated(c)
  /\ c.perimeter > 0
  /\ c.area < 15 * c.perimeter

\* lines 187-206
CrackRecord(c, pixels) ==
  LET max_dim == Max(c.w, c.h)
  IN  IF max_dim > 200 THEN Emitted(c, "crack", 17, "severe", "cv_edge", pixels)
      ELSE IF max_dim > 100
      THEN Emitted(c, "crack", 15, "moderate", "cv_edge", pixels)
      ELSE Emitted(c, "crack", 13, "minor", "cv_edge", pixels)

\* ImageAnalyzer._detect_cracks, lines 135-208, from the contours on
RECURSIVE DetectCracks(_, _, _)
DetectCracks(cs, sens, pixels) ==
  IF cs = <<>> THEN <<>>
  ELSE LET rest == DetectCracks(Tail(cs), sens, pixels)
       IN  IF IsCrack(Head(cs), sens)
           THEN <<CrackRecord(Head(cs), pixels)>> \o rest
           ELSE rest

\* the keys of color_ranges, lines 45-71
ColorTypes ==
  {"rust", "mold_green", "mold_black", "water_stain", "water_damage_brown"}

\* lines 259-266: the class name of a color defect type
ClassName(defect_type) ==
  IF defect_type \in {"mold_green", "mold_black"} THEN "Mold"
  ELSE IF defect_type \in {"water_stain", "water_damage_brown"}
  THEN "Water Damage"
  ELSE "Rust/Corrosion"

\* lines 248-275
ColorRecord(c, defect_type, pixels) ==
  IF c.area * 100 > 5 * pixels
  THEN Emitted(c, ClassName(defect_type), 18, "severe", "cv_color", pixels)
  ELSE IF c.area * 100 > pixels
  THEN Emitted(c, ClassName(defect_type), 16, "moderate", "cv_color", pixels)
  ELSE Emitted(c, ClassName(defect_type), 14, "minor", "cv_color", pixels)

\* ImageAnalyzer._detect_color_defect, lines 210-277, from the contours on
RECURSIVE DetectColorDefect(_, _, _, _)
DetectColorDefect(cs, defect_type, sens, pixels) ==
  IF defect_type \notin ColorTypes \/ cs = <<>> THEN <<>>
  ELSE LET rest == DetectColorDefect(Tail(cs), defect_type, sens, pixels)
       IN  IF Head(cs).area < MinArea(sens) * 2 THEN rest
           ELSE <<ColorRecord(Head(cs), defect_type, pixels)>> \o rest


\* ----------------------------------------------------- evidence_store.py
\* EvidenceStore.__init__, line 53: min_confidence_threshold = 0.4, in
\* twentieths like every confidence
min_confidence_threshold20 == 8

\* d.get('confidence', 0), lines 104 and 164
ConfidenceOr0(d) == IF d.confidence = None THEN 0 ELSE d.confidence

\* max(d.get('confidence', 0) for d in detections) of a non-empty list
MaxConfidence(dets) ==
  CHOOSE m \in {ConfidenceOr0(dets[i]) : i \in 1..Len(dets)} :
    \A i \in 1..Len(dets) : m >= ConfidenceOr0(dets[i])

\* a should_capture that admits one item more than the limit
should_capture_PastLimit(index, limit, dets, scan_id) ==
  IF dets = <<>> THEN FALSE
  ELSE IF Len(DictGet(index, scan_id, <<>>)) > limit THEN FALSE
  ELSE MaxConfidence(dets) >= min_confidence_threshold20

\* should_capture, lines 80-105
should_capture(index, limit, dets, scan_id) ==
  IF dets = <<>> THEN FALSE
  ELSE IF Len(DictGet(index, scan_id, <<>>)) >= limit THEN FALSE
  ELSE MaxConfidence(dets) >= min_confidence_threshold20

\* stands for the None that save_evidence returns when it stores nothing: no
\* EvidenceItem has an empty detection list
NoEvidence ==
  [ scan_id |-> "", frame_id |-> 0, source |-> "", detections |-> <<>>,
    max_confidence |-> 0 ]

\* lines 166-178: the EvidenceItem; max_confidence is round(max, 3), kept
\* in thousandths
EvidenceItem(scan_id, frame, source, dets) ==
  [ scan_id |-> scan_id, frame_id |-> frame, source |-> source,
    detections |-> dets,
    max_confidence |-> RoundHalfEven(MaxConfidence(dets) * 1000, 20) ]

\* lines 180-183: the item is appended to the list of its scan
IndexPut(index, scan_id, item) ==
  [ k \in DOMAIN index \cup {scan_id} |->
      IF k = scan_id THEN Append(DictGet(index, scan_id, <<>>), item)
      ELSE index[k] ]

\* save_evidence, lines 107-190, as a function of the index: the index
\* after the call and the value returned
save_evidence(index, limit, dets, scan_id, frame, source) ==
  IF ~should_capture(index, limit, dets, scan_id)
  THEN [index |-> index, item |-> NoEvidence]
  ELSE LET evidence == EvidenceItem(scan_id, frame, source, dets)
       IN  [index |-> IndexPut(index, scan_id, evidence), item |-> evidence]

\* ------------------------------------------------------------------ state
VARIABLES
  defects, image_area, user_context,  \* arguments of the calculate_score call
  score_result,                       \* what calculate_score returned
  frame_scores,                       \* argument of the aggregate_scores call
  aggregated,                         \* what aggregate_scores returned
  tracks, next_id,                    \* TemporalTracker.tracks, .next_id
  pc,                                 \* "idle", or "update" inside a call
  detections, frame_id,               \* arguments of the update call
  update_outcome,                     \* how the last update call ended
  frame_idx,                          \* frame of the caller's last update call
  box1, box2, iou_result,             \* a calculate_iou call and its value
  track_areas, growth,                \* DefectTrack.areas and its growth_rate
  summary,                            \* what get_summary returned
  contours, sensitivity, total_pixels,\* what a sub-detector of ImageAnalyzer sees
  detected,                           \* what that sub-detector returned
  video,                              \* one _analyze_video call
  scan_storage, ws_session, scan_task,\* main.py: deep scans, sessions, tasks
  evidence_index,                     \* EvidenceStore._evidence_index
  max_evidence_per_scan,              \* EvidenceStore.max_evidence_per_scan
  saved                               \* what the last save_evidence returned

scorerVars == <<defects, image_area, user_context, score_result>>
aggVars == <<frame_scores, aggregated>>
trackerVars == <<tracks, next_id, pc, detections, frame_id, update_outcome,
                 frame_idx>>
iouVars == <<box1, box2, iou_result>>
growthVars == <<track_areas, growth>>
detectorVars == <<contours, sensitivity, total_pixels, detected>>
scanVars == <<scan_storage, ws_session, scan_task>>
evidenceVars == <<evidence_index, max_evidence_per_scan, saved>>
extraVars == <<detectorVars, video, scanVars, evidenceVars>>
helperVars == <<iouVars, growthVars, summary, extraVars>>
vars == <<defects, image_area, user_context, score_result, frame_scores,
          aggregated, tracks, next_id, pc, detections, frame_id,
          update_outcome, frame_idx, box1, box2, iou_result, track_areas, growth,
          summary, contours, sensitivity, total_pixels, detected, video,
          scan_storage, ws_session, scan_task, evidence_index,
          max_evidence_per_scan, saved>>

\* no calculate_iou, growth_rate or get_summary evaluated, no frame fed
NoIoU == [done |-> FALSE, num |-> 0, den |-> 1]
NoGrowth == [done |-> FALSE, num |-> 0, den |-> 1]

InitIoU == box1 = <<>> /\ box2 = <<>> /\ iou_result = NoIoU

\* no image handed to ImageAnalyzer
NoDetected == [done |-> FALSE, by |-> "", defects |-> <<>>]
InitDetector ==
  /\ contours = <<>>
  /\ sensitivity = "medium"
  /\ total_pixels = 1
  /\ detected = NoDetected

\* no video being analysed
NoVideo ==
  [ fps100 |-> 0, total_frames |-> 0, defects |-> <<>>,
    sample_interval |-> 1, frame_idx |-> 0, frames_analyzed |-> 0,
    all_defects |-> <<>>, outcome |-> "none",
    temporal_analysis |-> NoSummary ]

\* main.py line 60: scan_storage = {}; no session, no task
InitScans ==
  /\ scan_storage = <<>>
  /\ ws_session = <<>>
  /\ scan_task = <<>>

\* no save_evidence call made
NoSaved ==
  [done |-> FALSE, scan_id |-> "", detections |-> <<>>, item |-> NoEvidence]

\* EvidenceStore.__init__, lines 49-78, with the default limit
InitEvidence ==
  /\ evidence_index = <<>>
  /\ max_evidence_per_scan = 50
  /\ saved = NoSaved

InitExtra == InitDetector /\ video = NoVideo /\ InitScans /\ InitEvidence
InitGrowth == track_areas = <<>> /\ growth = NoGrowth
InitHelpers == InitIoU /\ InitGrowth /\ summary = NoSummary /\ InitExtra

\* TemporalTracker.__init__, lines 52-56, and no call in progress
InitTracker ==
  /\ tracks = <<>>
  /\ next_id = 1
  /\ pc = "idle"
  /\ detections = <<>>
  /\ frame_id = 0
  /\ update_outcome = "none"
  /\ frame_idx = -1

SeqsUpTo(S, n) == UNION { [1..k -> S] : k \in 0..n }

\* ---------------------------------------------------- inputs of the scorer
Detection(c, k, b, a) ==
  [class |-> c, confidence |-> k, bbox |-> b, affected_area_percent |-> a]

\* (bbox, affected_area_percent): the area given by the detector, a box of
\* 2 or of 10 pixels without it, and a record whose bbox is not a 4-element box
AreaShapes ==
  { <<<<0, 0, 5, 2>>, 6>>, <<<<0, 0, 5, 2>>, 100>>, <<<<0, 0, 2, 1>>, None>>,
    <<<<0, 0, 5, 2>>, None>>, <<<<>>, None>> }

ScoreClasses == {"crack", "Mold", "Water Damage"}
\* confidence in twentieths: 0.0, 0.9, 1.0
ScoreConfidences == {0, 18, 20}

ScoreDetections ==
  { Detection(c, k, sh[1], sh[2]) :
      c \in ScoreClasses, k \in ScoreConfidences, sh \in AreaShapes }

ImageAreas == {-10, 0, 10}

Context(n, c, a) == [is_none |-> n, climate |-> c, building_age |-> a]

NoContext == Context(TRUE, Absent, Absent)

Contexts ==
  { Context(TRUE, Absent, Absent), Context(FALSE, Absent, Absent),
    Context(FALSE, "hot_humid", Absent), Context(FALSE, "cold_dry", "pre_1950"),
    Context(FALSE, "hot_humid", "pre_1950"), Context(FALSE, Absent, "1990_2010"),
    Context(FALSE, "arctic", "pre_1900"), Context(FALSE, Absent, "pre_1950") }

\* ------------------------------------------- specification of the scorer
InitScore ==
  /\ defects \in SeqsUpTo(ScoreDetections, MaxDets)
  /\ image_area \in ImageAreas
  /\ user_context \in Contexts
  /\ score_result = NoResult
  /\ frame_scores = <<>>
  /\ aggregated = NoAggregate
  /\ InitTracker
  /\ InitHelpers

CalculateScore ==
  /\ score_result.outcome = "none"
  /\ score_result' = CalcScore(defects, image_area, user_context)
  /\ UNCHANGED <<defects, image_area, user_context, aggVars, trackerVars,
               helperVars>>

NextScore == CalculateScore

SpecScore == InitScore /\ [][NextScore]_vars

\* ------------------- specification of the scorer on well-formed inputs
\* detections with confidence in [0,1] and a non-negative area, scored
\* against a positive image_area
WellFormedDetections ==
  { Detection(c, k, sh[1], sh[2]) :
      c \in {"crack", "Mold"}, k \in ScoreConfidences,
      sh \in { t \in AreaShapes : Len(t[1]) = 4 } }

PositiveImageAreas == {10, 20}

WellFormedContexts ==
  { Context(TRUE, Absent, Absent), Context(FALSE, "hot_humid", Absent),
    Context(FALSE, "hot_humid", "pre_1950"),
    Context(FALSE, "cold_dry", "1990_2010") }

InitScoreWellFormed ==
  /\ defects \in SeqsUpTo(WellFormedDetections, MaxDets)
  /\ image_area \in PositiveImageAreas
  /\ user_context \in WellFormedContexts
  /\ score_result = NoResult
  /\ frame_scores = <<>>
  /\ aggregated = NoAggregate
  /\ InitTracker
  /\ InitHelpers

SpecScoreWellFormed == InitScoreWellFormed /\ [][NextScore]_vars

\* ------------ specification of the scorer on what ImageAnalyzer emits
\* image_analyzer.py line 199 and lines 259-266: the class names of the
\* sub-detectors
EmittedClasses == {"crack"} \cup { ClassName(t) : t \in ColorTypes }

\* detections of an emitted class with one of the detector's confidences
\* (0.65, 0.9) and an affected_area_percent
EmittedDetections ==
  { Detection(c, k, <<0, 0, 5, 2>>, a) :
      c \in EmittedClasses, k \in {13, 18}, a \in {6, 100} }

EmittedContexts ==
  { Context(TRUE, Absent, Absent), Context(FALSE, Absent, Absent),
    Context(FALSE, "hot_humid", Absent), Context(FALSE, "cold_dry", Absent),
    Context(FALSE, "coastal", Absent), Context(FALSE, "temperate", Absent) }

InitScoreEmitted ==
  /\ defects \in SeqsUpTo(EmittedDetections, MaxDets)
  /\ image_area = 10
  /\ user_context \in EmittedContexts
  /\ score_result = NoResult
  /\ frame_scores = <<>>
  /\ aggregated = NoAggregate
  /\ InitTracker
  /\ InitHelpers

SpecScoreEmitted == InitScoreEmitted /\ [][NextScore]_vars

\* -------------------------------------- specification of the aggregation
\* breakdown entries as calculate_score writes them
EntryMold ==
  BreakdownEntry(Detection("Mold", 18, <<0, 0, 5, 2>>, 6), 10,
                 Context(FALSE, "hot_humid", Absent))
EntryCrack ==
  BreakdownEntry(Detection("crack", 20, <<0, 0, 5, 2>>, None), 10,
                 Context(TRUE, Absent, Absent))

FrameRecord(s, n, b) == [score |-> s, defect_count |-> n, breakdown |-> b]

FrameScoreValues == {30, 31, 40, 60, 61, 80, 90, 100}
FrameBreakdowns == {<<>>, <<EntryMold>>, <<EntryCrack, EntryMold>>}

\* per-frame ScoreResults, and the per-image records of
\* DeepAnalyzer._analyze_image (deep_analyzer.py lines 325-331), which carry
\* 'score' and 'breakdown' but no 'defect_count'
FrameUniverse ==
  { FrameRecord(s, Len(b), b) : s \in FrameScoreValues, b \in FrameBreakdowns }
    \cup { FrameRecord(s, None, <<EntryMold>>) : s \in {40, 80} }

InitAggregate ==
  /\ frame_scores \in SeqsUpTo(FrameUniverse, MaxFrames)
  /\ aggregated = NoAggregate
  /\ defects = <<>>
  /\ image_area = 640 * 480
  /\ user_context = NoContext
  /\ score_result = NoResult
  /\ InitTracker
  /\ InitHelpers

AggregateFrames ==
  /\ aggregated.outcome = "none"
  /\ aggregated' = AggregateScores(frame_scores)
  /\ UNCHANGED <<frame_scores, scorerVars, trackerVars, helperVars>>

NextAggregate == AggregateFrames

SpecAggregate == InitAggregate /\ [][NextAggregate]_vars

\* ------------------------------------------ specification of the tracker
BoxA == <<0, 0, 10, 10>>
\* IoU(BoxA, BoxB) = 1/2
BoxB == <<0, 0, 10, 5>>
\* disjoint from BoxA and BoxB
BoxC == <<20, 20, 30, 30>>

\* what a detector hands to update for one frame; the last record has no
\* usable bbox
FrameDetections ==
  { Detection("crack", 18, BoxA, None), Detection("crack", 10, BoxB, None),
    Detection("mold", 18, BoxA, None), Detection("crack", 18, BoxC, None),
    Detection("crack", 10, <<>>, None) }

\* the caller has the detections of one frame and calls update
\* (deep_analyzer.py lines 378-383)
CallUpdate(dets, f) ==
  /\ pc = "idle"
  /\ Len(tracks) + Len(dets) <= MaxTracks
  /\ pc' = "update"
  /\ detections' = dets
  /\ frame_id' = f
  /\ frame_idx' = f
  /\ UNCHANGED <<tracks, next_id, update_outcome, scorerVars, aggVars,
                 helperVars>>

\* TemporalTracker.update runs to its return or to its exception
Update ==
  /\ pc = "update"
  /\ LET r == UpdateTracker(tracks, next_id, detections, frame_id)
     IN  /\ tracks' = r.tracks
         /\ next_id' = r.next_id
         /\ update_outcome' = r.outcome
  /\ pc' = "idle"
  /\ detections' = <<>>
  /\ frame_id' = 0
  /\ UNCHANGED <<frame_idx, scorerVars, aggVars, helperVars>>

InitTrackerSpec ==
  /\ InitTracker
  /\ InitHelpers
  /\ defects = <<>>
  /\ image_area = 640 * 480
  /\ user_context = NoContext
  /\ score_result = NoResult
  /\ frame_scores = <<>>
  /\ aggregated = NoAggregate

NextTracker ==
  \/ \E dets \in SeqsUpTo(FrameDetections, MaxFrameDets), f \in 0..MaxFrameId :
       CallUpdate(dets, f)
  \/ Update

SpecTracker == InitTrackerSpec /\ [][NextTracker]_vars

Spec == SpecTracker

\* ------------------ the tracker called with well-formed detections only
WellFormedFrameDetections == { d \in FrameDetections : Len(d.bbox) = 4 }

NextTrackerWellFormed ==
  \/ \E dets \in SeqsUpTo(WellFormedFrameDetections, MaxFrameDets),
        f \in 0..MaxFrameId :
       CallUpdate(dets, f)
  \/ Update

SpecTrackerWellFormed == InitTrackerSpec /\ [][NextTrackerWellFormed]_vars

\* -------------------------- the tracker fed by the frame loop of a video
\* DeepAnalyzer._analyze_video (deep_analyzer.py lines 366-383) calls update
\* with its frame counter, which only grows
FeedFrame(dets, f) ==
  /\ frame_idx < f
  /\ CallUpdate(dets, f)

NextVideo ==
  \/ \E dets \in SeqsUpTo(FrameDetections, MaxFrameDets), f \in 0..MaxFrameId :
       FeedFrame(dets, f)
  \/ Update

SpecVideo == InitTrackerSpec /\ [][NextVideo]_vars

\* ------------------------------------- specification of calculate_iou
\* [x1, y1, x2, y2] with integer corners, empty and inverted boxes included
Boxes ==
  { <<x1, y1, x2, y2>> :
      x1 \in 0..MaxCoord, y1 \in 0..MaxCoord, x2 \in 0..MaxCoord,
      y2 \in 0..MaxCoord }

InitIoUSpec ==
  /\ box1 \in Boxes
  /\ box2 \in Boxes
  /\ iou_result = NoIoU
  /\ InitGrowth
  /\ summary = NoSummary
  /\ InitExtra
  /\ InitTracker
  /\ defects = <<>>
  /\ image_area = 640 * 480
  /\ user_context = NoContext
  /\ score_result = NoResult
  /\ frame_scores = <<>>
  /\ aggregated = NoAggregate

CalculateIoU ==
  /\ ~iou_result.done
  /\ LET r == calculate_iou(box1, box2)
     IN  iou_result' = [done |-> TRUE, num |-> r.num, den |-> r.den]
  /\ UNCHANGED <<box1, box2, growthVars, summary, scorerVars, aggVars,
                 trackerVars, extraVars>>

NextIoU == CalculateIoU

SpecIoU == InitIoUSpec /\ [][NextIoU]_vars

\* ------------------------------- specification of DefectTrack.growth_rate
\* areas as line 78 computes them from a bbox: negative for a box inverted
\* in one direction
AreaValues == {-50, 0, 50, 100}

InitGrowthSpec ==
  /\ track_areas \in SeqsUpTo(AreaValues, MaxAreas)
  /\ growth = NoGrowth
  /\ InitIoU
  /\ summary = NoSummary
  /\ InitExtra
  /\ InitTracker
  /\ defects = <<>>
  /\ image_area = 640 * 480
  /\ user_context = NoContext
  /\ score_result = NoResult
  /\ frame_scores = <<>>
  /\ aggregated = NoAggregate

GrowthRate ==
  /\ ~growth.done
  /\ LET r == growth_rate(track_areas)
     IN  growth' = [done |-> TRUE, num |-> r.num, den |-> r.den]
  /\ UNCHANGED <<track_areas, iouVars, summary, scorerVars, aggVars,
                 trackerVars, extraVars>>

NextGrowth == GrowthRate

SpecGrowth == InitGrowthSpec /\ [][NextGrowth]_vars

\* ------------------------ specification of TemporalTracker.get_summary
\* the areas of a track seen once, twice, three times without change, four
\* times growing by a third, shrinking, starting from nothing, and six
\* times growing by a thirtieth
AreaHistories ==
  { <<100>>, <<100, 100>>, <<100, 100, 200>>, <<100, 100, 100, 200>>,
    <<200, 100, 100, 100>>, <<0, 0, 0, 100>>,
    <<100, 100, 100, 100, 100, 110>> }

\* the DefectTrack that update builds from detections of these areas in
\* consecutive frames (lines 94-100 and 114-123)
TrackOf(id, hist) ==
  [ track_id |-> id,
    defect_class |-> "crack",
    first_frame |-> 0,
    last_frame |-> Len(hist) - 1,
    frames_seen |-> Len(hist),
    max_confidence |-> 18,
    areas |-> hist,
    bboxes |-> [i \in 1..Len(hist) |-> <<0, 0, 10, hist[i] \div 10>>] ]

InitSummarySpec ==
  /\ \E hists \in SeqsUpTo(AreaHistories, MaxSummaryTracks) :
       /\ tracks = [i \in 1..Len(hists) |-> TrackOf(i, hists[i])]
       /\ next_id = Len(hists) + 1
  /\ pc = "idle"
  /\ detections = <<>>
  /\ frame_id = 0
  /\ update_outcome = "none"
  /\ frame_idx = -1
  /\ summary = NoSummary
  /\ InitIoU
  /\ InitGrowth
  /\ InitExtra
  /\ defects = <<>>
  /\ image_area = 640 * 480
  /\ user_context = NoContext
  /\ score_result = NoResult
  /\ frame_scores = <<>>
  /\ aggregated = NoAggregate

GetSummary ==
  /\ ~summary.done
  /\ summary' = get_summary(tracks)
  /\ UNCHANGED <<iouVars, growthVars, scorerVars, aggVars, trackerVars,
                 extraVars>>

NextSummary == GetSummary

SpecSummary == InitSummarySpec /\ [][NextSummary]_vars

\* ------------- specification of growth_rate and get_summary of one track
\* the tracker holds the one track that update builds from detections of
\* the areas track_areas; its growth_rate is read and its summary taken
InitTrackGrowth ==
  /\ track_areas \in SeqsUpTo(AreaValues, MaxAreas) \ {<<>>}
  /\ tracks = <<TrackOf(1, track_areas)>>
  /\ next_id = 2
  /\ pc = "idle"
  /\ detections = <<>>
  /\ frame_id = 0
  /\ update_outcome = "none"
  /\ frame_idx = -1
  /\ growth = NoGrowth
  /\ summary = NoSummary
  /\ InitIoU
  /\ InitExtra
  /\ defects = <<>>
  /\ image_area = 640 * 480
  /\ user_context = NoContext
  /\ score_result = NoResult
  /\ frame_scores = <<>>
  /\ aggregated = NoAggregate

NextTrackGrowth ==
  \/ GrowthRate
  \/ GetSummary

SpecTrackGrowth == InitTrackGrowth /\ [][NextTrackGrowth]_vars

\* ----------------------------- specification of the CV sub-detectors
\* contours of a 1000 x 1000 image: below and at min_area, long and thin up
\* to the size bands, square, at aspect ratio 2.0 and just below, at and
\* below area / perimeter = 15, a large blob, and a single point
ContourSamples ==
  { Contour(199, 10, 10, 100, 5, 210), Contour(200, 10, 10, 100, 5, 210),
    Contour(400, 10, 20, 101, 5, 212), Contour(800, 0, 30, 201, 5, 412),
    Contour(800, 40, 0, 5, 201, 412), Contour(900, 50, 50, 30, 30, 120),
    Contour(20000, 0, 0, 200, 100, 600), Contour(300, 5, 5, 60, 29, 100),
    Contour(9000, 0, 100, 300, 40, 600), Contour(9000, 0, 100, 300, 40, 601),
    Contour(60000, 100, 100, 300, 300, 1200), Contour(0, 7, 7, 1, 1, 0) }

InitDetectorSpec ==
  /\ contours \in SeqsUpTo(ContourSamples, MaxContours)
  /\ sensitivity \in {"low", "medium", "high", "extreme"}
  /\ total_pixels = 1000 * 1000
  /\ detected = NoDetected
  /\ video = NoVideo
  /\ InitScans
  /\ InitEvidence
  /\ InitIoU
  /\ InitGrowth
  /\ summary = NoSummary
  /\ InitTracker
  /\ defects = <<>>
  /\ image_area = 640 * 480
  /\ user_context = NoContext
  /\ score_result = NoResult
  /\ frame_scores = <<>>
  /\ aggregated = NoAggregate

othersOfDetector ==
  <<contours, sensitivity, total_pixels, video, scanVars, evidenceVars,
    iouVars, growthVars, summary, scorerVars, aggVars, trackerVars>>

DetectCracksCall ==
  /\ ~detected.done
  /\ detected' = [ done |-> TRUE, by |-> "cracks",
                   defects |-> DetectCracks(contours, sensitivity,
                                            total_pixels) ]
  /\ UNCHANGED othersOfDetector

DetectColorDefectCall(defect_type) ==
  /\ ~detected.done
  /\ detected' = [ done |-> TRUE, by |-> defect_type,
                   defects |-> DetectColorDefect(contours, defect_type,
                                                 sensitivity, total_pixels) ]
  /\ UNCHANGED othersOfDetector

NextDetector ==
  \/ DetectCracksCall
  \/ \E t \in ColorTypes : DetectColorDefectCall(t)

SpecDetector == InitDetectorSpec /\ [][NextDetector]_vars

\* -------------------------- specification of DeepAnalyzer._analyze_video
\* the frame is 5 x 2 pixels; the detector reports the same list for every
\* frame it is given
VideoCrack == Detection("crack", 18, <<0, 0, 5, 2>>, None)
VideoMold == Detection("mold", 16, <<0, 0, 2, 1>>, None)
VideoDefects == { <<>>, <<VideoCrack>>, <<VideoCrack, VideoMold>> }

\* CAP_PROP_FPS in hundredths of a frame per second: unknown (0), negative,
\* 4, 5, 10, 15, 25, 29.97, 30 and 60 frames per second
FrameRates == {0, -100, 400, 500, 1000, 1500, 2500, 2997, 3000, 6000}

\* deep_analyzer.py lines 340-345: the fallback of 30 fps, target_fps = 5.0,
\* sample_interval = max(1, int(fps / target_fps))
SampleInterval(fps100) ==
  LET fps == IF fps100 <= 0 THEN 3000 ELSE fps100
  IN  Max(1, fps \div 500)

InitAnalyzeVideo ==
  /\ video \in { [ NoVideo EXCEPT !.fps100 = r, !.total_frames = n,
                                  !.defects = d ] :
                   r \in FrameRates, n \in 0..MaxVideoFrames,
                   d \in VideoDefects }
  /\ InitDetector
  /\ InitScans
  /\ InitEvidence
  /\ InitIoU
  /\ InitGrowth
  /\ summary = NoSummary
  /\ InitTracker
  /\ defects = <<>>
  /\ image_area = 10
  /\ user_context = NoContext
  /\ score_result = NoResult
  /\ frame_scores = <<>>
  /\ aggregated = NoAggregate

othersOfVideo ==
  <<detectorVars, scanVars, evidenceVars, iouVars, growthVars, summary,
    scorerVars, aggregated, pc, detections, frame_id>>

\* lines 335-357: the capture is opened, the sampling interval computed and
\* a new tracker created
OpenVideo ==
  /\ video.outcome = "none"
  /\ video' = [ video EXCEPT
                  !.sample_interval = SampleInterval(video.fps100),
                  !.frame_idx = 0,
                  !.outcome = "running" ]
  /\ tracks' = <<>>
  /\ next_id' = 1
  /\ frame_scores' = <<>>
  /\ UNCHANGED <<update_outcome, frame_idx, othersOfVideo>>

\* lines 359-364 and 392: a frame that is not sampled is only counted
SkipFrame ==
  /\ video.outcome = "running"
  /\ video.frame_idx < video.total_frames
  /\ video.frame_idx % video.sample_interval # 0
  /\ video' = [ video EXCEPT !.frame_idx = @ + 1 ]
  /\ UNCHANGED <<tracks, next_id, frame_scores, update_outcome, frame_idx,
                 othersOfVideo>>

\* lines 359-392: a sampled frame is detected, tracked and scored; an
\* exception of update or of calculate_score leaves _analyze_video
SampleFrame ==
  /\ video.outcome = "running"
  /\ video.frame_idx < video.total_frames
  /\ video.frame_idx % video.sample_interval = 0
  /\ LET current_defects == video.defects
         r == UpdateTracker(tracks, next_id, current_defects,
                            video.frame_idx)
         sc == CalcScore(current_defects, image_area, user_context)
     IN  /\ tracks' = r.tracks
         /\ next_id' = r.next_id
         /\ update_outcome' = r.outcome
         /\ frame_idx' = video.frame_idx
         /\ IF r.outcome # "return"
            THEN /\ video' = [ video EXCEPT
                                 !.all_defects = @ \o current_defects,
                                 !.outcome = r.outcome ]
                 /\ UNCHANGED frame_scores
            ELSE IF sc.outcome # "return"
            THEN /\ video' = [ video EXCEPT
                                 !.all_defects = @ \o current_defects,
                                 !.outcome = sc.outcome ]
                 /\ UNCHANGED frame_scores
            ELSE /\ video' = [ video EXCEPT
                                 !.all_defects = @ \o current_defects,
                                 !.frame_idx = @ + 1 ]
                 /\ frame_scores' = Append(frame_scores, sc)
  /\ UNCHANGED othersOfVideo

\* lines 360-363 and 394-407: no frame is left, the result is built
FinishVideo ==
  /\ video.outcome = "running"
  /\ video.frame_idx >= video.total_frames
  /\ video' = [ video EXCEPT
                  !.outcome = "return",
                  !.frames_analyzed = Len(frame_scores),
                  !.temporal_analysis = get_summary(tracks) ]
  /\ UNCHANGED <<tracks, next_id, frame_scores, update_outcome, frame_idx,
                 othersOfVideo>>

NextAnalyzeVideo ==
  \/ OpenVideo
  \/ SkipFrame
  \/ SampleFrame
  \/ FinishVideo

SpecAnalyzeVideo == InitAnalyzeVideo /\ [][NextAnalyzeVideo]_vars

\* --------------------------------------- specification of EvidenceStore
ScanIds == {"scan-a", "scan-b"}

\* confidences 0.35, 0.4 and 0.9, and a detection without 'confidence'
EvidenceDetections ==
  { <<>>,
    <<Detection("crack", 7, BoxA, None)>>,
    <<Detection("crack", 8, BoxA, None)>>,
    <<Detection("crack", 7, BoxA, None), Detection("mold", 18, BoxB, None)>>,
    <<Detection("crack", None, BoxA, None)>> }

\* the store is built with a capacity of 0 .. MaxEvidence or the default 50
InitEvidenceSpec ==
  /\ evidence_index = <<>>
  /\ max_evidence_per_scan \in 0..MaxEvidence \cup {50}
  /\ saved = NoSaved
  /\ InitDetector
  /\ video = NoVideo
  /\ InitScans
  /\ InitIoU
  /\ InitGrowth
  /\ summary = NoSummary
  /\ InitTracker
  /\ defects = <<>>
  /\ image_area = 640 * 480
  /\ user_context = NoContext
  /\ score_result = NoResult
  /\ frame_scores = <<>>
  /\ aggregated = NoAggregate

\* one save_evidence call; a scan is called for until it holds one item
\* more than the largest bounded capacity
SaveEvidence(dets, scan_id) ==
  /\ Len(DictGet(evidence_index, scan_id, <<>>)) <= MaxEvidence
  /\ LET r == save_evidence(evidence_index, max_evidence_per_scan, dets,
                            scan_id, 1, "deep_scan_upload")
     IN  /\ evidence_index' = r.index
         /\ saved' = [ done |-> TRUE, scan_id |-> scan_id,
                       detections |-> dets, item |-> r.item ]
  /\ UNCHANGED <<max_evidence_per_scan, detectorVars, video, scanVars,
                 iouVars, growthVars, summary, scorerVars, aggVars,
                 trackerVars>>

NextEvidence ==
  \E dets \in EvidenceDetections, scan_id \in ScanIds :
    SaveEvidence(dets, scan_id)

SpecEvidence == InitEvidenceSpec /\ [][NextEvidence]_vars

\* ----------------- specification of DeepAnalyzer.analyze over image files
\* what the detectors of _analyze_image find in one readable image of
\* 5 x 2 pixels
ImageDefects ==
  { <<>>,
    <<Detection("crack", 18, <<0, 0, 5, 2>>, None)>>,
    <<Detection("Mold", 18, <<0, 0, 5, 2>>, 100),
      Detection("crack", 20, <<0, 0, 2, 1>>, None)>>,
    <<Detection("Water Damage", 6, <<0, 0, 2, 1>>, 6)>> }

\* deep_analyzer.py lines 325-331: the record _analyze_image returns has
\* 'score', 'risk_level' and 'breakdown' of the ScoreResult and no
\* 'defect_count' key
ImageRecord(sc) ==
  [score |-> sc.score, defect_count |-> None, breakdown |-> sc.breakdown]

\* DeepScanResult, lines 30-31: risk_score = 100, risk_level = "Low Risk"
DefaultScanResult ==
  [ NoAggregate EXCEPT !.outcome = "return", !.score = 100,
                       !.risk_level = "Low Risk" ]

InitAnalyze ==
  /\ frame_scores = <<>>
  /\ aggregated = NoAggregate
  /\ defects = <<>>
  /\ image_area = 10
  /\ user_context \in Contexts
  /\ score_result = NoResult
  /\ InitTracker
  /\ InitHelpers

\* lines 149-158 with _analyze_image, lines 227-331: the detections of the
\* image are saved as evidence (when there are any) and scored, and the
\* record is appended to all_frame_scores; an exception of _analyze_image
\* is logged and the image left out
AnalyzeImage(dets) ==
  /\ aggregated.outcome = "none"
  /\ Len(frame_scores) < MaxFrames
  /\ LET sc == CalcScore(dets, image_area, user_context)
         ev == save_evidence(evidence_index, max_evidence_per_scan, dets,
                             "scan-a", 1, "deep_scan_upload")
     IN  /\ defects' = dets
         /\ score_result' = sc
         /\ evidence_index' = ev.index
         /\ saved' = IF dets = <<>> THEN saved
                     ELSE [ done |-> TRUE, scan_id |-> "scan-a",
                            detections |-> dets, item |-> ev.item ]
         /\ frame_scores' = IF sc.outcome = "return"
                            THEN Append(frame_scores, ImageRecord(sc))
                            ELSE frame_scores
  /\ UNCHANGED <<image_area, user_context, aggregated, max_evidence_per_scan,
                 trackerVars, iouVars, growthVars, summary, detectorVars,
                 video, scanVars>>

\* lines 186-192: the per-image records are aggregated; aggregate_scores is
\* called outside every try block, so its exception ends analyze
AggregateImages ==
  /\ aggregated.outcome = "none"
  /\ aggregated' = IF frame_scores = <<>> THEN DefaultScanResult
                   ELSE AggregateScores(frame_scores)
  /\ UNCHANGED <<frame_scores, scorerVars, trackerVars, helperVars>>

NextAnalyze ==
  \/ \E dets \in ImageDefects : AnalyzeImage(dets)
  \/ AggregateImages

SpecAnalyze == InitAnalyze /\ [][NextAnalyze]_vars

\* ------------------------------- specification of the deep scans of main.py
\* scan ids are 1, 2, ... in the order the scans are registered;
\* scan_storage[i] is the entry of scan i, ws_session[i] its camera session
\* and scan_task[i] its _run_deep_scan task
NoSession == [open |-> FALSE, received |-> 0, has_video |-> FALSE]

\* what one message of a camera session carries: no frame, a frame that
\* cv2.imdecode cannot decode, or a frame
WsMessages == {"empty", "undecodable", "frame"}

InitScansSpec ==
  /\ InitScans
  /\ InitDetector
  /\ video = NoVideo
  /\ InitEvidence
  /\ InitIoU
  /\ InitGrowth
  /\ summary = NoSummary
  /\ InitTracker
  /\ defects = <<>>
  /\ image_area = 640 * 480
  /\ user_context = NoContext
  /\ score_result = NoResult
  /\ frame_scores = <<>>
  /\ aggregated = NoAggregate

othersOfScans ==
  <<detectorVars, video, evidenceVars, iouVars, growthVars, summary,
    scorerVars, aggVars, trackerVars>>

\* POST /api/scan/deep, lines 399-459: the scan is registered as
\* 'processing' and its task created
StartDeepScan ==
  /\ Len(scan_storage) < MaxScans
  /\ scan_storage' = Append(scan_storage,
                            [ type |-> "deep", status |-> "processing",
                              progress |-> 0 ])
  /\ ws_session' = Append(ws_session, NoSession)
  /\ scan_task' = Append(scan_task, "scheduled")
  /\ UNCHANGED othersOfScans

\* /ws/scan/deep, lines 294-321: the session is accepted and the scan
\* registered as 'recording'
WsConnect ==
  /\ Len(scan_storage) < MaxScans
  /\ scan_storage' = Append(scan_storage,
                            [ type |-> "deep", status |-> "recording",
                              progress |-> None ])
  /\ ws_session' = Append(ws_session,
                          [open |-> TRUE, received |-> 0, has_video |-> FALSE])
  /\ scan_task' = Append(scan_task, "none")
  /\ UNCHANGED othersOfScans

\* lines 324-367: one message of the session; only a decoded frame creates
\* the video writer and is written to the recording
WsReceive(i, m) ==
  /\ i \in 1..Len(ws_session)
  /\ ws_session[i].open
  /\ ws_session[i].received < MaxWsMessages
  /\ ws_session' = [ ws_session EXCEPT
                       ![i].received = @ + 1,
                       ![i].has_video = @ \/ m = "frame" ]
  /\ UNCHANGED <<scan_storage, scan_task, othersOfScans>>

\* lines 378-383: the status the finally block leaves
WsEndStatus(session, entry) ==
  IF session.has_video THEN [entry EXCEPT !.status = "processing"]
  ELSE entry

\* lines 333-334 and 372-392: the stop command, a disconnect or an error
\* ends the session; the finally block starts the analysis only if the
\* recording exists and is not empty
WsEnd(i) ==
  /\ i \in 1..Len(ws_session)
  /\ ws_session[i].open
  /\ ws_session' = [ws_session EXCEPT ![i].open = FALSE]
  /\ scan_storage' = [ scan_storage EXCEPT
                         ![i] = WsEndStatus(ws_session[i], @) ]
  /\ scan_task' = [ scan_task EXCEPT
                      ![i] = IF ws_session[i].has_video THEN "scheduled"
                             ELSE @ ]
  /\ UNCHANGED othersOfScans

\* _run_deep_scan, lines 462-485: the task starts and awaits the analysis
TaskStart(i) ==
  /\ i \in 1..Len(scan_task)
  /\ scan_task[i] = "scheduled"
  /\ scan_task' = [scan_task EXCEPT ![i] = "running"]
  /\ scan_storage' = [scan_storage EXCEPT ![i].progress = 10]
  /\ UNCHANGED <<ws_session, othersOfScans>>

\* _run_deep_scan, lines 488-539: the analysis returned (ok) or raised
TaskFinish(i, ok) ==
  /\ i \in 1..Len(scan_task)
  /\ scan_task[i] = "running"
  /\ scan_task' = [scan_task EXCEPT ![i] = "done"]
  /\ scan_storage' = [ scan_storage EXCEPT
                         ![i] = IF ok
                                THEN [@ EXCEPT !.status = "complete",
                                               !.progress = 100]
                                ELSE [@ EXCEPT !.status = "error"] ]
  /\ UNCHANGED <<ws_session, othersOfScans>>

NextScans ==
  \/ StartDeepScan
  \/ WsConnect
  \/ \E i \in 1..MaxScans, m \in WsMessages : WsReceive(i, m)
  \/ \E i \in 1..MaxScans : WsEnd(i)
  \/ \E i \in 1..MaxScans : TaskStart(i)
  \/ \E i \in 1..MaxScans, ok \in BOOLEAN : TaskFinish(i, ok)

SpecScans == InitScansSpec /\ [][NextScans]_vars

\* the event loop runs every created task, the analysis terminates and
\* every camera session ends
SpecScansFair ==
  /\ SpecScans
  /\ \A i \in 1..MaxScans :
       /\ WF_vars(WsEnd(i))
       /\ WF_vars(TaskStart(i))
       /\ WF_vars(\E ok \in BOOLEAN : TaskFinish(i, ok))

\* ======================================================== claims: scorer
Returned == score_result.outcome = "return"

\* C1: every call of calculate_score that returns yields a score with
\* 0 <= score <= 100, whatever the detections, image_area and user_context.
C1_ScoreWithinRange == Returned => score_result.score \in 0..100

Clamp(x, lo, hi) == Max(lo, Min(x, hi))

\* the age table as the claim states it, whole points
ClaimedAgePenalty(uc) ==
  IF uc.is_none THEN 0
  ELSE CASE uc.building_age = "pre_1950" -> 15
         [] uc.building_age = "pre_1970" -> 10
         [] uc.building_age = "1970_1990" -> 5
         [] uc.building_age = "1990_2010" -> 2
         [] OTHER -> 0

\* C2: for a non-empty list the defect penalties are summed, the sum is
\* capped at 70, the age penalty is added uncapped, and
\* score = round(clamp(100 - (min(raw, 70) + age), 0, 100)).
C2_CapBeforeAge ==
  (Returned /\ defects # <<>>) =>
    LET D == Den(image_area)
        raw == SumPenalties(defects, image_area, user_context)
        age == ClaimedAgePenalty(user_context) * D
    IN  score_result.score =
          RoundHalfEven(Clamp(100 * D - (Min(raw, 70 * D) + age), 0, 100 * D), D)

\* C3: risk_level is a function of the final score alone: High Risk iff
\* score <= 30, Moderate Risk iff 30 < score <= 60, Low Risk iff score > 60.
C3_RiskLevelFromScore ==
  Returned =>
    /\ score_result.risk_level = "High Risk" <=> score_result.score <= 30
    /\ score_result.risk_level = "Moderate Risk" <=>
          (30 < score_result.score /\ score_result.score <= 60)
    /\ score_result.risk_level = "Low Risk" <=> score_result.score > 60

\* a call whose capped penalty brings the score to the threshold 30 exactly
C3_Witness ==
  Returned /\ score_result.score = 30 /\ score_result.risk_level = "High Risk"

\* C4: an empty detection list gives score 100, Low Risk, defect_count 0 and
\* zero penalties, whatever image_area and user_context are.
C4_EmptyListPerfect ==
  (defects = <<>> /\ score_result.outcome # "none") =>
    /\ score_result.outcome = "return"
    /\ score_result.score = 100
    /\ score_result.risk_level = "Low Risk"
    /\ score_result.defect_count = 0
    /\ score_result.defects_penalty = 0
    /\ score_result.age_factor = 0
    /\ score_result.breakdown = <<>>

\* the empty list scored with a building age that costs 15 points elsewhere
C4_Witness ==
  /\ defects = <<>>
  /\ Returned
  /\ ~user_context.is_none
  /\ user_context.building_age = "pre_1950"

\* C6: defect_penalty = (severity*3 + area_factor*area_multiplier)
\* * (confidence*0.8 + 0.2) * climate_multiplier, area_factor being
\* affected_area_percent/10 when present and 10*bbox_area/image_area for a
\* 4-element bbox otherwise; the mold example scores 77, Low Risk.
ClaimedPenalty(d, ia, uc) ==
  LET w == WeightOf(Lower(d.class))
      area_factor == IF d.affected_area_percent # None
                     THEN d.affected_area_percent * IA(ia)
                     ELSE 100 * BoxArea(d.bbox) * Sgn(ia)
  IN  (w.severity * 3 * 10 * IA(ia) + area_factor * w.area_multiplier)
        * (d.confidence * 8 + 40) * ClimateMult(uc, Lower(d.class))

MoldExample == <<Detection("Mold", 18, <<0, 0, 5, 2>>, 6)>>

C6_PenaltyFormula ==
  Returned =>
    /\ \A i \in 1..Len(defects) :
         (defects[i].affected_area_percent # None \/ Len(defects[i].bbox) = 4)
           => score_result.breakdown[i].penalty =
                RoundHalfEven(ClaimedPenalty(defects[i], image_area, user_context),
                              Den(image_area) \div 100)
    /\ ( /\ defects = MoldExample
         /\ ~user_context.is_none
         /\ user_context.climate = "hot_humid"
         /\ user_context.building_age = Absent )
         => /\ score_result.score = 77
            /\ score_result.risk_level = "Low Risk"
            /\ score_result.breakdown[1].penalty = 2277

\* the mold example has been scored
C6_Witness ==
  /\ Returned
  /\ defects = MoldExample
  /\ user_context = Context(FALSE, "hot_humid", Absent)
  /\ score_result.score = 77

\* e is d with a higher confidence or a larger area, all else equal
Raised(d, e) ==
  /\ e.class = d.class
  /\ \/ /\ e.confidence > d.confidence
        /\ e.bbox = d.bbox
        /\ e.affected_area_percent = d.affected_area_percent
     \/ /\ e.confidence = d.confidence
        /\ e.bbox = d.bbox
        /\ d.affected_area_percent # None
        /\ e.affected_area_percent > d.affected_area_percent
     \/ /\ e.confidence = d.confidence
        /\ d.affected_area_percent = None
        /\ e.affected_area_percent = None
        /\ BoxArea(e.bbox) > BoxArea(d.bbox)

ScoreOf(ds) == CalcScore(ds, image_area, user_context).score

\* C5: for image_area > 0 and well-formed detections, appending a detection
\* never raises the score, and raising one detection's confidence or area,
\* all else equal, never raises the score.
C5_Monotone ==
  (Returned /\ image_area > 0) =>
    /\ \A d \in WellFormedDetections :
         ScoreOf(Append(defects, d)) <= score_result.score
    /\ \A i \in 1..Len(defects) : \A e \in WellFormedDetections :
         Raised(defects[i], e) =>
           ScoreOf([defects EXCEPT ![i] = e]) <= score_result.score

\* a scored list that one more detection, and one raised detection, each
\* push strictly lower
C5_Witness ==
  /\ Returned
  /\ image_area > 0
  /\ \E d \in WellFormedDetections :
       ScoreOf(Append(defects, d)) < score_result.score
  /\ \E i \in 1..Len(defects) : \E e \in WellFormedDetections :
       /\ Raised(defects[i], e)
       /\ ScoreOf([defects EXCEPT ![i] = e]) < score_result.score

\* ===================================================== claims: aggregation
Aggregated == aggregated.outcome = "return"

\* every frame is a ScoreResult: it carries score, defect_count and breakdown
AllScoreResults ==
  \A i \in 1..Len(frame_scores) : frame_scores[i].defect_count # None

\* C7: for a non-empty list of ScoreResults the session score is the minimum
\* frame score, risk_level follows from that minimum by the thresholds 30 and
\* 60, average_score is the mean rounded to a nearest integer; 80, 40, 90
\* give 40, 70, Moderate Risk.
C7_MinimumScore ==
  (aggregated.outcome # "none" /\ frame_scores # <<>> /\ AllScoreResults) =>
    LET n == Len(frame_scores)
        scores == [i \in 1..n |-> frame_scores[i].score]
    IN  /\ Aggregated
        /\ \E i \in 1..n : aggregated.score = scores[i]
        /\ \A i \in 1..n : aggregated.score <= scores[i]
        /\ aggregated.risk_level =
             (IF aggregated.score <= 30 THEN "High Risk"
              ELSE IF aggregated.score <= 60 THEN "Moderate Risk"
              ELSE "Low Risk")
        /\ 2 * Abs(aggregated.average_score * n - SumScores(frame_scores)) <= n
        /\ scores = <<80, 40, 90>> =>
             /\ aggregated.score = 40
             /\ aggregated.average_score = 70
             /\ aggregated.risk_level = "Moderate Risk"

\* the frames 80, 40, 90 have been aggregated
C7_Witness ==
  /\ Aggregated
  /\ Len(frame_scores) = 3
  /\ [i \in 1..3 |-> frame_scores[i].score] = <<80, 40, 90>>

\* number of breakdown entries of the frames before frame i
RECURSIVE Offset(_, _)
Offset(frames, i) ==
  IF i <= 1 THEN 0
  ELSE Offset(frames, i - 1) + Len(frames[i - 1].breakdown)

C9_IdsInState ==
  /\ \A i \in 1..Len(tracks) : \A j \in 1..Len(tracks) :
       i < j => tracks[i].track_id < tracks[j].track_id
  /\ tracks # <<>> => tracks[1].track_id = 1
  /\ \A i \in 1..Len(tracks) : tracks[i].track_id < next_id

C9_IdsInStep ==
  /\ Len(tracks') >= Len(tracks)
  /\ \A i \in 1..Len(tracks) : tracks'[i].track_id = tracks[i].track_id
  /\ next_id' >= next_id
  /\ \A i \in (Len(tracks) + 1)..Len(tracks') :
       tracks'[i].track_id >= next_id

C9_UniqueIncreasingIds == [](C9_IdsInState) /\ [][C9_IdsInStep]_vars

\* tracks created by two different update calls
C9_Witness ==
  /\ pc = "idle"
  /\ Len(tracks) >= 3
  /\ tracks[1].first_frame # tracks[Len(tracks)].first_frame
  /\ next_id = Len(tracks) + 1

LastBox(track) == track.bboxes[Len(track.bboxes)]

\* tracks eligible for matching in the frame of the call in progress
IsActive(t) == frame_id - tracks[t].last_frame <= max_dropout

\* the detections of the call in progress that overlap track t enough
Overlapping(t) ==
  { i \in 1..Len(detections) :
      /\ detections[i].class = tracks[t].defect_class
      /\ IoUAtLeast(calculate_iou(detections[i].bbox, LastBox(tracks[t])),
                    iou_threshold) }

\* no other eligible track of the same class competes for the detections
OnlyCandidate(t) ==
  \A u \in 1..Len(tracks) :
    (u # t /\ IsActive(u)) => tracks[u].defect_class # tracks[t].defect_class

\* C10: in one update call over well-formed detections a track is bound to
\* at most one detection: its frames_seen grows by exactly 1 when a
\* same-class detection of the frame matches it with IoU >= iou_threshold,
\* and by 0 otherwise, however many detections overlap it.
C10_Step ==
  (pc = "update" /\ \A i \in 1..Len(detections) : Len(detections[i].bbox) = 4)
    => \A t \in 1..Len(tracks) :
         LET grown == tracks'[t].frames_seen - tracks[t].frames_seen
         IN  /\ grown \in {0, 1}
             /\ (IsActive(t) /\ OnlyCandidate(t) /\ Overlapping(t) # {})
                  => grown = 1
             /\ (~IsActive(t) \/ Overlapping(t) = {}) => grown = 0

C10_BoundAtMostOnce == [][C10_Step]_vars

\* C11: with frame ids that only grow, a track whose last_frame lies more
\* than max_dropout frames behind the frame being fed is left as it is by
\* that update and by every later one (it stays that far behind), no track
\* is ever removed and get_summary keeps counting it; a track exactly
\* max_dropout frames behind is still among the active tracks of line 64.
Dropped(t) == frame_idx - t.last_frame > max_dropout

C11_Frozen ==
  /\ frame_idx' >= frame_idx
  /\ Len(tracks') >= Len(tracks)
  /\ get_summary(tracks').total_tracks >= Len(tracks)
  /\ \A t \in 1..Len(tracks) :
       /\ tracks'[t].track_id = tracks[t].track_id
       /\ Dropped(tracks[t]) =>
            /\ tracks'[t] = tracks[t]
            /\ frame_idx' - tracks'[t].last_frame > max_dropout

C11_Eligible ==
  pc = "update" =>
    \A t \in 1..Len(tracks) :
      frame_id - tracks[t].last_frame = max_dropout =>
        \E k \in 1..Len(ActiveTracks(tracks, frame_id)) :
          ActiveTracks(tracks, frame_id)[k] = t

C11_DroppedNeverBound == [](C11_Eligible) /\ [][C11_Frozen]_vars

\* a track was left behind by more than max_dropout frames, and a later
\* detection of its class in its very box started a new track instead
C11_Witness ==
  /\ pc = "idle"
  /\ Len(tracks) = 2
  /\ tracks[1].defect_class = tracks[2].defect_class
  /\ tracks[1].bboxes = tracks[2].bboxes
  /\ tracks[2].first_frame - tracks[1].last_frame > max_dropout
  /\ tracks[1].frames_seen = 1
  /\ Dropped(tracks[1])

\* ------------------------------------------------ claims: matching
WellFormedFrame ==
  pc = "update" /\ \A i \in 1..Len(detections) : Len(detections[i].bbox) = 4

IoUWith(i, t) == calculate_iou(detections[i].bbox, LastBox(tracks[t]))

\* the active tracks of detection i's class that overlap it enough
Candidates(i) ==
  { t \in 1..Len(tracks) :
      /\ IsActive(t)
      /\ tracks[t].defect_class = detections[i].class
      /\ IoUAtLeast(IoUWith(i, t), iou_threshold) }

\* the step binds track t to detection i as the claims describe a binding
BoundTo(t, i) ==
  /\ tracks'[t].bboxes = Append(tracks[t].bboxes, detections[i].bbox)
  /\ tracks'[t].areas = Append(tracks[t].areas, BoxArea(detections[i].bbox))
  /\ tracks'[t].last_frame = frame_id
  /\ tracks'[t].max_confidence =
       Max(tracks[t].max_confidence, detections[i].confidence)

\* track n of the next state was created in this step from detection i
CreatedFrom(n, i) ==
  /\ tracks'[n].first_frame = frame_id
  /\ tracks'[n].last_frame = frame_id
  /\ tracks'[n].frames_seen = 1
  /\ tracks'[n].defect_class = detections[i].class
  /\ tracks'[n].bboxes = <<detections[i].bbox>>

\* C12: in an update over well-formed detections a track changes only by
\* being bound to a detection of its class that overlaps it with IoU >=
\* iou_threshold; every detection that is not bound creates exactly one new
\* track with first_frame = last_frame = frame_id and frames_seen = 1; a
\* lone detection is bound exactly when such a track exists, and then to
\* one of highest IoU.
C12_Step ==
  WellFormedFrame =>
    LET bound == { t \in 1..Len(tracks) : tracks'[t] # tracks[t] }
    IN  /\ \A t \in bound :
             \E i \in 1..Len(detections) : t \in Candidates(i) /\ BoundTo(t, i)
        /\ Len(tracks') - Len(tracks) = Len(detections) - Cardinality(bound)
        /\ \A n \in (Len(tracks) + 1)..Len(tracks') :
             \E i \in 1..Len(detections) : CreatedFrom(n, i)
        /\ Len(detections) = 1 =>
             /\ Candidates(1) # {} <=> bound # {}
             /\ \A t \in bound : \A u \in Candidates(1) :
                  IoUAtLeast(IoUWith(1, t), IoUWith(1, u))

C13_Step ==
  (/\ WellFormedFrame
   /\ Len(detections) = 2
   /\ detections[1].class = detections[2].class
   /\ detections[1].confidence # detections[2].confidence)
    => \A t \in Candidates(1) \cap Candidates(2) :
         OnlyCandidate(t) =>
           LET hi == IF detections[1].confidence > detections[2].confidence
                     THEN 1 ELSE 2
               lo == 3 - hi
           IN  /\ BoundTo(t, hi)
               /\ Len(tracks') = Len(tracks) + 1
               /\ CreatedFrom(Len(tracks'), lo)

C13_HigherConfidenceFirst == [][C13_Step]_vars

\* C14: an update with no detections returns and leaves the tracker as it
\* was, whatever the frame id: no track is created, removed or changed and
\* next_id keeps its value.
C14_Step ==
  (pc = "update" /\ detections = <<>>) =>
    /\ update_outcome' = "return"
    /\ tracks' = tracks
    /\ next_id' = next_id

C14_EmptyUpdateNoChange == [][C14_Step]_vars

\* the last update returned at a frame at which no track was created, with
\* a track inside the dropout window: a frame with a detection creates a
\* track when it returns, so this frame had none
C14_Witness ==
  /\ pc = "idle"
  /\ update_outcome = "return"
  /\ \A t \in 1..Len(tracks) : tracks[t].last_frame # frame_idx
  /\ \E t \in 1..Len(tracks) :
       frame_idx - tracks[t].last_frame \in 1..max_dropout

\* -------------------------------------------- claims: calculate_iou
ValidBox(b) == b[1] < b[3] /\ b[2] < b[4]

\* the unit cell with lower corner (i, j) lies inside box b
CellIn(i, j, b) == b[1] <= i /\ i + 1 <= b[3] /\ b[2] <= j /\ j + 1 <= b[4]

\* boxes with integer corners overlap when they share a unit cell
Overlap(a, b) ==
  \E i \in 0..(MaxCoord - 1), j \in 0..(MaxCoord - 1) :
    CellIn(i, j, a) /\ CellIn(i, j, b)

\* C15: calculate_iou(b, b) is 1 for every box with x1 < x2 and y1 < y2, it
\* is 0 for every two boxes that do not overlap, and calculate_iou(a, b)
\* equals calculate_iou(b, a) for all boxes.
C15_IoUProperties ==
  iou_result.done =>
    /\ (box1 = box2 /\ ValidBox(box1)) => iou_result.num = iou_result.den
    /\ ~Overlap(box1, box2) => iou_result.num = 0
    /\ LET swapped == calculate_iou(box2, box1)
       IN  iou_result.num * swapped.den = swapped.num * iou_result.den

\* two different boxes that overlap in part
C15_Witness ==
  /\ iou_result.done
  /\ box1 # box2
  /\ 0 < iou_result.num
  /\ iou_result.num < iou_result.den
  /\ box1[1] < box2[1]

\* ----------------------------------- claims: growth_rate, get_summary
\* track_areas[lo] + ... + track_areas[hi]
RECURSIVE AreaSum(_, _)
AreaSum(lo, hi) ==
  IF lo > hi THEN 0 ELSE track_areas[lo] + AreaSum(lo + 1, hi)

Window == Min(3, Len(track_areas))
FirstSum == AreaSum(1, Window)
LastSum == AreaSum(Len(track_areas) - Window + 1, Len(track_areas))

\* C16: growth_rate is a number for every list of areas (its denominator is
\* never 0); it is 0 with fewer than 2 samples or when the average of the
\* first min(3, n) areas is 0; otherwise it is (average of the last
\* min(3, n) areas - average of the first min(3, n)) / average of the first
\* min(3, n), both averages being their sums over min(3, n).
C16_GrowthRate ==
  growth.done =>
    /\ growth.den # 0
    /\ (Len(track_areas) < 2 \/ FirstSum = 0) => growth.num = 0
    /\ (Len(track_areas) >= 2 /\ FirstSum # 0) =>
         growth.num * FirstSum = (LastSum - FirstSum) * growth.den

\* four or more samples whose last three outgrow the first three
C16_Witness ==
  /\ growth.done
  /\ Len(track_areas) >= 4
  /\ FirstSum > 0
  /\ growth.num * growth.den > 0

\* the indices of the persistent tracks
PersistentIds == { t \in 1..Len(tracks) : tracks[t].frames_seen >= 3 }

Malformed == { i \in 1..Len(detections) : Len(detections[i].bbox) # 4 }

\* C18: an update whose frame holds a detection without a valid 4-element
\* bbox returns; with no active track to match, every detection of the
\* frame, the malformed one included, starts a track, and the malformed
\* one's track has area 0.
C18_Step ==
  (pc = "update" /\ Malformed # {} /\ ActiveTracks(tracks, frame_id) = <<>>)
    => /\ update_outcome' = "return"
       /\ Len(tracks') = Len(tracks) + Len(detections)
       /\ \A i \in Malformed :
            \E n \in (Len(tracks) + 1)..Len(tracks') :
              /\ tracks'[n].defect_class = detections[i].class
              /\ tracks'[n].areas = <<0>>

C18_BadDetectionTolerated == [][C18_Step]_vars

\* the detections of the scored list without affected_area_percent whose
\* bbox is not a 4-element box
NoUsableArea ==
  { i \in 1..Len(defects) :
      defects[i].affected_area_percent = None /\ Len(defects[i].bbox) # 4 }

\* (base_penalty + af * area_multiplier) * confidence_factor
\* * climate_multiplier for an area_factor af over 10 * IA(ia), rounded to
\* hundredths as the breakdown reports it
PenaltyWithAreaFactor(d, ia, uc, af) ==
  LET w == WeightOf(Lower(d.class))
  IN  RoundHalfEven((w.severity * 3 * 10 * IA(ia) + af * w.area_multiplier)
                      * (d.confidence * 8 + 40) * ClimateMult(uc, Lower(d.class)),
                    Den(ia) \div 100)

\* no detection of the list needs image_area: each carries
\* affected_area_percent or has no 4-element bbox
NoneUsesImageArea ==
  \A i \in 1..Len(defects) :
    defects[i].affected_area_percent # None \/ Len(defects[i].bbox) # 4

\* C19 as stated: a detection without affected_area_percent and without a
\* 4-element bbox has area_factor 0, so its penalty is base_penalty *
\* confidence_factor * climate_multiplier, and it does not abort the call.
C19_ZeroAreaFactor ==
  /\ (score_result.outcome # "none" /\ NoneUsesImageArea) => Returned
  /\ Returned =>
       \A i \in NoUsableArea :
         score_result.breakdown[i].penalty =
           PenaltyWithAreaFactor(defects[i], image_area, user_context, 0)

\* C19 amended: such a detection has area_factor 1.0, so its penalty is
\* (base_penalty + area_multiplier) * confidence_factor *
\* climate_multiplier whatever image_area is, and it does not abort the
\* call: a list none of whose detections needs image_area is scored even
\* with image_area = 0.
C19_UnitAreaFactor ==
  /\ (score_result.outcome # "none" /\ NoneUsesImageArea) => Returned
  /\ Returned =>
       \A i \in NoUsableArea :
         score_result.breakdown[i].penalty =
           PenaltyWithAreaFactor(defects[i], image_area, user_context,
                                 10 * IA(image_area))

\* a list with such a detection scored against image_area 0
C19_Witness ==
  /\ Returned
  /\ NoUsableArea # {}
  /\ image_area = 0
  /\ Len(defects) = 2

\* C20: a call of calculate_score with a non-empty list and image_area <= 0
\* ends in a ValidationError: it neither divides by zero nor returns a
\* score.
C20_RejectsNonPositiveArea ==
  (score_result.outcome # "none" /\ defects # <<>> /\ image_area <= 0)
    => score_result.outcome = "ValidationError"

\* ------------------------------------------- claims: unknown keys
KnownClasses ==
  { "crack", "leak", "water_damage", "damp", "dampness", "mold", "mould",
    "corrosion", "rust", "peeling", "stain", "electrical", "spalling",
    "deformation" }
KnownClimates == {"hot_humid", "cold_dry", "coastal"}
KnownAges == {"pre_1950", "pre_1970", "1970_1990", "1990_2010", "post_2010"}

\* (severity*3 + area_factor*area_multiplier) * confidence_factor * climate
\* multiplier for detection d with the given weight and multiplier (tenths),
\* rounded to hundredths as the breakdown reports it
PenaltyWithWeight(d, ia, sev10, am10, cm10) ==
  RoundHalfEven((sev10 * 3 * 10 * IA(ia) + AreaFactor(d, ia) * am10)
                  * (d.confidence * 8 + 40) * cm10,
                Den(ia) \div 100)

NoClimate ==
  user_context.is_none \/ user_context.climate \notin KnownClimates
NoAge ==
  user_context.is_none \/ user_context.building_age \notin KnownAges

\* C21: calculate_score does not fail on an unknown class, an absent
\* user_context, an unknown climate or an unknown building_age (it returns
\* whenever image_area is not 0); an unknown class is scored with severity
\* 2.0 and area_multiplier 1.0 and climate multiplier 1.0, an absent or
\* unknown climate gives multiplier 1.0 for every class, and an absent or
\* unknown building_age gives age penalty 0.
C21_UnknownKeysDefault ==
  /\ (score_result.outcome # "none" /\ image_area # 0) => Returned
  /\ (Returned /\ defects # <<>>) =>
       /\ \A i \in 1..Len(defects) :
            Lower(defects[i].class) \notin KnownClasses =>
              /\ score_result.breakdown[i].severity = 20
              /\ ~score_result.breakdown[i].climate_adjusted
              /\ score_result.breakdown[i].penalty =
                   PenaltyWithWeight(defects[i], image_area, 20, 10, 10)
       /\ NoClimate =>
            \A i \in 1..Len(defects) :
              /\ ~score_result.breakdown[i].climate_adjusted
              /\ score_result.breakdown[i].penalty =
                   PenaltyWithWeight(defects[i], image_area,
                                     score_result.breakdown[i].severity,
                                     WeightOf(Lower(defects[i].class)).area_multiplier,
                                     10)
       /\ NoAge => score_result.age_factor = 0

\* an unknown class scored under an unknown climate and an unknown age
C21_Witness ==
  /\ Returned
  /\ \E i \in 1..Len(defects) : defects[i].class = "Water Damage"
  /\ ~user_context.is_none
  /\ user_context.climate = "arctic"
  /\ user_context.building_age = "pre_1900"

\* -------------------------------------------- claims: crack detector
\* the contours of the call that the claimed test accepts, in order
ClaimedCracks ==
  SelectSeq(contours,
            LAMBDA c : /\ c.area >= MinArea(sensitivity)
                       /\ Max(c.w, c.h) > 2 * (Min(c.w, c.h) + 1)
                       /\ c.perimeter > 0
                       /\ c.area < 15 * c.perimeter)

\* C22: _detect_cracks emits exactly the contours with area >= min_area,
\* max(w,h)/(min(w,h)+1) > 2.0, perimeter > 0 and area/perimeter < 15, one
\* 'crack' record each, in order; none with aspect ratio <= 2.0 whatever its
\* area; the record is severe/0.85 when max(w,h) > 200, moderate/0.75 when
\* max(w,h) > 100, else minor/0.65.
C22_CrackFilter ==
  (detected.done /\ detected.by = "cracks") =>
    /\ Len(detected.defects) = Len(ClaimedCracks)
    /\ \A k \in 1..Len(detected.defects) :
         LET d == detected.defects[k]
             c == ClaimedCracks[k]
             max_dim == Max(c.w, c.h)
         IN  /\ d.class = "crack"
             /\ d.bbox = <<c.x, c.y, c.x + c.w, c.y + c.h>>
             /\ Max(d.bbox[3] - d.bbox[1], d.bbox[4] - d.bbox[2])
                  > 2 * (Min(d.bbox[3] - d.bbox[1], d.bbox[4] - d.bbox[2]) + 1)
             /\ max_dim > 200 => d.severity = "severe" /\ d.confidence = 17
             /\ (max_dim > 100 /\ max_dim <= 200) =>
                  d.severity = "moderate" /\ d.confidence = 15
             /\ max_dim <= 100 => d.severity = "minor" /\ d.confidence = 13

\* one contour emitted and one of aspect ratio exactly 2.0, large enough and
\* thin enough, rejected
C22_Witness ==
  /\ detected.done
  /\ detected.by = "cracks"
  /\ Len(detected.defects) = 1
  /\ Len(contours) = 2
  /\ \E k \in 1..2 :
       /\ contours[k].area >= MinArea(sensitivity)
       /\ Max(contours[k].w, contours[k].h)
            = 2 * (Min(contours[k].w, contours[k].h) + 1)

\* ------------------------------------------- claims: video analysis
\* sampled frames _analyze_video has handed to the tracker so far
Sampled ==
  IF video.defects = <<>> THEN 0
  ELSE Len(video.all_defects) \div Len(video.defects)

OneDefectVideo == video.outcome # "none" /\ video.defects = <<VideoCrack>>

\* C23: at every frame rate, a defect detected with the same class and bbox
\* in consecutive sampled frames of a video is bound to one track: the
\* analysis does not fail, the tracker holds one track seen in every sampled
\* frame, and after three sampled frames the temporal analysis reports one
\* persistent track.
C23_OneTrackAcrossSamples ==
  OneDefectVideo =>
    /\ video.outcome \in {"running", "return"}
    /\ Sampled >= 1 => Len(tracks) = 1 /\ tracks[1].frames_seen = Sampled
    /\ (video.outcome = "return" /\ Sampled >= 3) =>
         /\ video.temporal_analysis.total_tracks = 1
         /\ video.temporal_analysis.persistent_defects_count = 1

\* ------------------------------------------- claims: evidence store
Stored(scan_id) == Len(DictGet(evidence_index, scan_id, <<>>))

Storable(dets) ==
  /\ dets # <<>>
  /\ \E i \in 1..Len(dets) :
       dets[i].confidence # None /\ dets[i].confidence * 10 >= 4 * 20

\* C26: without cleanup_scan, no scan ever has more than
\* max_evidence_per_scan items indexed; a save_evidence call stores an item
\* only for a non-empty detection list whose highest confidence is at least
\* 0.4, and then appends exactly that item to the list of its scan; every
\* other call returns None and leaves the index unchanged.
C26_EvidenceBounded ==
  /\ [](\A s \in ScanIds : Stored(s) <= max_evidence_per_scan)
  /\ [][ /\ saved'.done
         /\ saved'.item # NoEvidence =>
              /\ Storable(saved'.detections)
              /\ Stored(saved'.scan_id) < max_evidence_per_scan
              /\ evidence_index' =
                   IndexPut(evidence_index, saved'.scan_id, saved'.item)
              /\ saved'.item.scan_id = saved'.scan_id
              /\ saved'.item.detections = saved'.detections
         /\ saved'.item = NoEvidence => evidence_index' = evidence_index
         /\ ~Storable(saved'.detections) => saved'.item = NoEvidence ]_vars

C26_Witness ==
  /\ saved.done
  /\ saved.item = NoEvidence
  /\ Storable(saved.detections)
  /\ max_evidence_per_scan = MaxEvidence
  /\ Stored(saved.scan_id) = max_evidence_per_scan
  /\ \E s \in ScanIds : Stored(s) \in 1..(max_evidence_per_scan - 1)

\* ------------------------------------------- claims: deep scan of images
\* C24: DeepAnalyzer.analyze over one or more readable images completes
\* without error and its risk_score is the minimum of the per-image scores;
\* every per-image record handed to aggregate_scores carries score,
\* defect_count and breakdown.
C24_AnalyzeImagesCompletes ==
  /\ \A i \in 1..Len(frame_scores) : frame_scores[i].defect_count # None
  /\ (aggregated.outcome # "none" /\ frame_scores # <<>>) =>
       /\ aggregated.outcome = "return"
       /\ aggregated.score = MinScore(frame_scores)

\* ------------------------------------------- claims: deep scan status
Settled(i) == scan_storage[i].status \in {"complete", "error"}

\* nothing is left that could change the status of scan i
Quiescent(i) ==
  /\ ~ws_session[i].open
  /\ scan_task[i] \notin {"scheduled", "running"}

\* the claim as a liveness property of the fair specification
EventuallySettled ==
  \A i \in 1..MaxScans :
    [](i \in 1..Len(scan_storage) => <>(i \in 1..Len(scan_storage) /\ Settled(i)))

\* C25: every deep scan in scan_storage reaches 'complete' or 'error' once
\* its upload is accepted or its camera session has ended: a scan whose
\* session is closed and whose task is neither waiting nor running is not
\* left in 'recording' or 'processing'.
C25_NoScanLeftUnsettled ==
  \A i \in 1..Len(scan_storage) : Quiescent(i) => Settled(i)

\* ------------------------------------- claims: growth of short tracks
ReportedGrowing ==
  \/ summary.growing_defects_count > 0
  \/ \E i \in 1..Len(summary.tracks) : summary.tracks[i].is_growing

\* C27: growth_rate is 0 for every track with at most 3 area samples,
\* whatever the samples; get_summary reports a track as growing only if it
\* has frames_seen >= 4, and a track with frames_seen = 3 is reported as
\* persistent with growth rate 0 and not growing.
C27_ShortTracksNeverGrow ==
  /\ (growth.done /\ Len(track_areas) <= 3) => growth.num = 0
  /\ summary.done =>
       /\ ReportedGrowing => tracks[1].frames_seen >= 4
       /\ tracks[1].frames_seen = 3 =>
            /\ summary.persistent_defects_count = 1
            /\ summary.growing_defects_count = 0
            /\ Len(summary.tracks) = 1
            /\ summary.tracks[1].growth_rate = 0
            /\ ~summary.tracks[1].is_growing

C27_Witness ==
  /\ growth.done
  /\ summary.done
  /\ track_areas = <<50, 50, 100>>
  /\ tracks[1].frames_seen = 3
  /\ summary.persistent_defects_count = 1

\* ------------------------------------- claims: samples and detections
RECURSIVE FramesSeenSum(_)
FramesSeenSum(trks) ==
  IF trks = <<>> THEN 0
  ELSE Head(trks).frames_seen + FramesSeenSum(Tail(trks))

SamplesConsistent ==
  \A t \in 1..Len(tracks) :
    /\ tracks[t].frames_seen = Len(tracks[t].areas)
    /\ tracks[t].frames_seen = Len(tracks[t].bboxes)
    /\ tracks[t].frames_seen >= 1

\* C28: when update is only called with well-formed detections, every track
\* has frames_seen = len(areas) = len(bboxes) >= 1, and every update adds
\* exactly one sample per detection it was given, so that the sum of
\* frames_seen over all tracks is the number of detections passed so far.
C28_OneSamplePerDetection ==
  /\ []SamplesConsistent
  /\ [][ pc = "update" =>
           FramesSeenSum(tracks') = FramesSeenSum(tracks) + Len(detections)
       ]_vars

\* ------------------------------------------- claims: floor of the score
HasBuildingAge ==
  ~user_context.is_none /\ user_context.building_age # Absent

\* C29: with the default configuration and well-formed detections a
\* returned score is at least 15, and at least 30 when user_context carries
\* no building_age; score 0 is never returned, and without building_age the
\* risk level is 'High Risk' exactly when the score is 30.
C29_ScoreFloor ==
  Returned =>
    /\ score_result.score >= 15
    /\ score_result.score # 0
    /\ ~HasBuildingAge =>
         /\ score_result.score >= 30
         /\ score_result.risk_level = "High Risk" <=> score_result.score = 30

\* the defect cap is reached without building_age
C29_Witness ==
  /\ Returned
  /\ ~HasBuildingAge
  /\ score_result.score = 30
  /\ score_result.risk_level = "High Risk"
  /\ score_result.defects_penalty = max_defects_penalty * Den(image_area)

\* ----------------------------- claims: detector classes in the scorer
\* the climate multiplier (tenths) the tables give class key k
TableClimateMult(k) ==
  LET c == IF user_context.is_none \/ user_context.climate = Absent
           THEN "temperate" ELSE user_context.climate
  IN  CASE c = "hot_humid" /\ k = "mold" -> 15
        [] c = "cold_dry" /\ k = "crack" -> 13
        [] OTHER -> 10

\* C30: of the classes the detector emits, 'crack' and 'Mold' are scored
\* with their own weights (severity 3.0 / area_multiplier 1.5 and 5.0 / 2.5)
\* and their climate multipliers; 'Water Damage' and 'Rust/Corrosion' are
\* scored with the default weight (2.0, 1.0) and climate multiplier 1.0 in
\* every climate.
C30_EmittedClassWeights ==
  (Returned /\ defects # <<>>) =>
    \A i \in 1..Len(defects) :
      LET d == defects[i]
          e == score_result.breakdown[i]
      IN  /\ d.class = "crack" =>
                /\ e.severity = 30
                /\ e.penalty = PenaltyWithWeight(d, image_area, 30, 15,
                                                 TableClimateMult("crack"))
          /\ d.class = "Mold" =>
                /\ e.severity = 50
                /\ e.penalty = PenaltyWithWeight(d, image_area, 50, 25,
                                                 TableClimateMult("mold"))
          /\ d.class \in {"Water Damage", "Rust/Corrosion"} =>
                /\ e.severity = 20
                /\ ~e.climate_adjusted
                /\ e.penalty = PenaltyWithWeight(d, image_area, 20, 10, 10)

\* rust scored on the coast next to mold in the same call
C30_Witness ==
  /\ Returned
  /\ Len(defects) = 2
  /\ defects[1].class = "Rust/Corrosion"
  /\ defects[2].class = "Mold"
  /\ ~user_context.is_none
  /\ user_context.climate = "coastal"
  /\ score_result.breakdown[1].severity = 20


====
